---- MODULE Spec2Model ----
(***************************************************************************)
(* State-machine models of the batch scripts of this repository.           *)
(*                                                                         *)
(*   SpecFBI   src/fbi_vault_scraper/app.py, FBIVaultScraper.run and the   *)
(*             methods it calls (download phase, verification, OCR phase,  *)
(*             handlers and cleanup).                                      *)
(*   SpecMail  src/gmail_backup_and_clean/                                 *)
(*             2_consolidate_files_into_single_pdf.py, process_all_months  *)
(*             and process_month.                                          *)
(*   SpecCompress  src/gmail_backup_and_clean/4_pdf_compress.py, main.     *)
(*   SpecRepair    src/gmail_backup_and_clean/3_pdf_repair.py, main.       *)
(*   SpecFn    sanitize_filename of 1_files_from_mbox.py and               *)
(*             convert_pdf_to_pdf_pages, convert_attachment_to_pdf of      *)
(*             2_consolidate_files_into_single_pdf.py, each applied to one *)
(*             input.                                                      *)
(*   SpecWait  src/fbi_vault_scraper/app.py,                               *)
(*             FBIVaultScraper.wait_for_download_with_monitoring.          *)
(*   SpecMbox  src/gmail_backup_and_clean/1_files_from_mbox.py,            *)
(*             process_mbox.                                               *)
(*   SpecCia   src/cia_reading_room_scraper/cia_rdp96_app.py,              *)
(*             scrape_document_pages.                                      *)
(*   SpecState src/state_department/state_dep_allowances.py, layer_0.      *)
(*                                                                         *)
(* The browser, the site, the file conversions and the user at the prompt  *)
(* are the environment: every call into them is a nondeterministic choice  *)
(* over the results the code distinguishes.                                *)
(***************************************************************************)
EXTENDS Integers, Sequences, FiniteSets, TLC

(***************************************************************************)
(* Bounds of the model.                                                    *)
(***************************************************************************)
NumDocs == 2        \* documents listed by the search; their URLs are 1..NumDocs
MaxFaults == 1      \* driver calls that fail (error, timeout, dead session) in one run
MaxInterrupts == 1  \* keyboard interrupts raised in one run
MaxOcrPasses == 4   \* the user stops answering 'y' once ocr_attempts reaches this
NumMonths == 2      \* month folders of the mail archive
MaxEmails == 2      \* email folders in one month folder
MaxAttachments == 2 \* attachments in one email folder
MaxSize == 2        \* sizes of PDF files are 1..MaxSize
MaxPdfs == 2        \* PDFs the repair script finds to process
MaxAffix == 3       \* characters after the run of letters of a file name
MaxPages == 2       \* pages of a small PDF
MaxPolls == 5       \* polls of the download directory before the timeout
MaxMessages == 3    \* messages of the mbox file
NumUrls == 3        \* document URLs found on the search pages
NumDates == 3       \* effective dates offered by the allowances form

(***************************************************************************)
(* Program constants of app.py.                                            *)
(***************************************************************************)
max_retries == 3                \* process_single_document_download(max_retries=3)
max_verification_attempts == 3  \* verify_downloads_complete(max_verification_attempts=3)
max_ocr_attempts == 3           \* process_ocr_phase

VARIABLES
  \* ---- FBIVaultScraper ----
  pc,                  \* position of run
  max_documents,       \* argument of run; 0 is None
  browser,             \* self.driver and the browser sessions behind it
  faults,              \* browser faults so far
  downloaded_pdfs,     \* the tracking list of run (a list of [url, ocr])
  tracking_file,       \* downloaded_<term>.json: [exists, data]
  documents_processed,
  search_page,         \* search_page_url: the results page it names (0: none)
  result_links,        \* result_links of the running for loop
  link_i,              \* loop index of process_page_downloads / download_missing_documents
  link_url,            \* the document being downloaded
  retry_count,
  attempt,             \* verify_downloads_complete: attempt
  total_available,
  downloaded_urls,     \* download_missing_documents: the set of known urls
  all_downloaded,      \* result of verify_downloads_complete: "none", "true", "false"
  ocr_pdfs,            \* process_ocr_phase: its own downloaded_pdfs
  ocr_call,            \* which call of process_ocr_phase is running (1, 2)
  ocr_attempts,
  ocr_idx,
  results,             \* self.results: how many documents it holds of each url
  results_file,        \* fbi_vault_<term>.json: [exists, data]
  last_answer,         \* the user's last answer at a prompt of process_ocr_phase
  \* ---- history ----
  n_loaded,            \* entries loaded by initialize_download_phase
  ocr_started,         \* the OCR phase has handed a PDF to extract_text_from_pdf
  psd_ret,             \* how process_single_document_download last ended
  interrupts,          \* keyboard interrupts raised so far
  handler,             \* handler of run that was entered: "none", "kbd", "fatal"
  saved_in_handler,    \* save_results ran in a handler
  tracking_removed     \* os.remove(tracking_file) ran

VARIABLES
  \* ---- 2_consolidate_files_into_single_pdf.py ----
  m_pc,                \* position of process_all_months / process_month
  mpath,               \* the month folder being processed (index, 0: none)
  n_folders,           \* len(email_folders) of that month
  folder_i,            \* the email folder being processed (index)
  n_attachments,       \* len(attachments) of that email
  att_i,               \* the attachment being processed (index)
  embedded,            \* writer.add_attachment calls made for each attachment
  consolidated,        \* the email folders whose metadata is in `consolidated`
  pdf_written,         \* <<month, folder>> of every <folder>_complete.pdf written
  json_written,        \* months whose consolidated JSON was written
  soffice,             \* get_soffice_path() finds LibreOffice
  \* ---- history ----
  failed_at,           \* <<month, folder, attachment>> where ConversionError was
                       \* raised (attachment 0: the email PDF itself), << >>: nowhere
  att_seen             \* for each attachment of the email folder: its type and how
                       \* it fared

VARIABLES
  \* ---- 4_pdf_compress.py ----
  c_pc,                \* position of main
  src_exists,          \* src.exists()
  gs_exe,              \* find_ghostscript() finds an executable
  src_pdfs,            \* the PDFs under src: name -> size, 0: no such file
  dst_made,            \* ensure_directory_exists(dst) ran
  dst_pdfs,            \* the files under dst: path -> file, NoPdf: no such file
  all_pdfs,            \* the list of main
  pdf_i,               \* rounds of 'for i, pdf_path in enumerate(all_pdfs, 1)' done
  \* ---- history ----
  dst_at_start,        \* dst_pdfs when main was called
  handled              \* the PDFs whose output was not present when their round began

VARIABLES
  \* ---- 3_pdf_repair.py ----
  r_pc,                \* position of main
  pdfs_to_process,     \* the PDFs not filtered out as already done: 1..pdfs_to_process
  r_i,                 \* the PDF being processed_pdfs (index)
  method_i,            \* entries of fix_methods tried for it
  success,             \* success
  method_used,         \* method_used ("": None)
  out_size,            \* output_path.stat().st_size of each PDF, 0: no such file
  processed_pdfs,           \* the PDFs counted in processed_count
  failed_files,        \* failed_files
  \* ---- history ----
  tried                \* for each PDF, the fix methods called and what they returned

VARIABLES
  \* ---- functions checked on their own ----
  f_call,              \* the call made: the function and its arguments
  f_ret                \* what the call returned or raised

VARIABLES
  \* ---- fbi_vault_scraper/app.py: wait_for_download_with_monitoring ----
  w_pc,                \* where the wait is
  expected_filename,   \* the argument, NoName for None
  w_dir,               \* self.download_dir: the size of each file, Absent if none
  seen_files,          \* seen_files
  current_files,       \* current_files, from the last os.listdir
  new_file,            \* new_files[0]
  size1,               \* size1
  last_file_count,     \* last_file_count
  stable_count_checks, \* stable_count_checks
  w_polls,             \* iterations of the while loop so far (the clock)
  w_ret,               \* what the call returned or raised
  \* ---- history ----
  w_dir0               \* the download directory when the wait began

VARIABLES
  \* ---- gmail_backup_and_clean/1_files_from_mbox.py: process_mbox ----
  b_pc,                \* where process_mbox is
  n_messages,          \* total = len(mbox)
  msg_key,             \* the message the for loop is at
  mbox_processed,      \* processed
  error_count,         \* error_count
  \* ---- history ----
  msg_outcome          \* for each message, how each of its iterations ended

VARIABLES
  \* ---- cia_reading_room_scraper/cia_rdp96_app.py: scrape_document_pages ----
  cia_pc,              \* where scrape_document_pages is
  document_urls,       \* the argument urls
  layer_1,             \* the files of output/layer_1
  downloaded,          \* downloaded
  urls_to_scrape,      \* urls_to_scrape
  url_i,               \* the position of the for loop in urls_to_scrape
  cia_driver,          \* the Chrome driver: "none", "open" or "quit"
  \* ---- history ----
  layer_1_at_start,    \* output/layer_1 when the call began
  fetched              \* for each document, how each driver.get of its URL went on

VARIABLES
  \* ---- state_department/state_dep_allowances.py: layer_0 ----
  s_pc,                \* where layer_0 is
  date_values,         \* date_values: the dates 1..date_values of the form
  date_i,              \* the date the for loop is at
  csv_files,           \* the dates with a file output/tables/<date>.csv
  s_driver,            \* the Chrome driver: "none", "open" or "quit"
  s_escaped,           \* the call that raised out of layer_0, "none" if none did
  \* ---- history ----
  csv_at_start,        \* csv_files when the call began
  date_fetches         \* for each date, how each of its iterations past the skip ended

mailVars == << m_pc, mpath, n_folders, folder_i, n_attachments, att_i, embedded,
               consolidated, pdf_written, json_written, soffice, failed_at, att_seen >>

cfgVars == << max_documents, n_loaded >>
envVars == << browser, faults >>
dlVars == << downloaded_pdfs, tracking_file, documents_processed >>
loopVars == << search_page, result_links, link_i, link_url, retry_count, psd_ret >>
verifyVars == << attempt, total_available, downloaded_urls, all_downloaded >>
ocrVars == << ocr_pdfs, ocr_call, ocr_attempts, ocr_idx, results, results_file,
              last_answer, ocr_started >>
endVars == << handler, saved_in_handler, tracking_removed >>

fbiVars == << pc, cfgVars, envVars, dlVars, loopVars, verifyVars, ocrVars, endVars,
              interrupts >>

compressVars == << c_pc, src_exists, gs_exe, src_pdfs, dst_made, dst_pdfs, dst_at_start,
                   all_pdfs, pdf_i, handled >>

repairVars == << r_pc, pdfs_to_process, r_i, method_i, success, method_used, out_size,
                 processed_pdfs, failed_files, tried >>

fnVars == << f_call, f_ret >>

waitVars == << w_pc, expected_filename, w_dir, w_dir0, seen_files, current_files,
               new_file, size1, last_file_count, stable_count_checks, w_polls, w_ret >>

mboxVars == << b_pc, n_messages, msg_key, mbox_processed, error_count, msg_outcome >>

ciaVars == << cia_pc, document_urls, layer_1, layer_1_at_start, downloaded, urls_to_scrape,
              url_i, fetched, cia_driver >>

stateVars == << s_pc, date_values, date_i, csv_files, csv_at_start, date_fetches,
                s_driver, s_escaped >>

\* The five scripts modelled first, and the four modelled after them.
earlyVars == << fbiVars, mailVars, compressVars, repairVars, fnVars >>
lateVars == << waitVars, mboxVars, ciaVars, stateVars >>

\* What the actions of one script leave alone: the state of the other scripts.
notFBI == << mailVars, compressVars, repairVars, fnVars, lateVars >>
notMail == << fbiVars, compressVars, repairVars, fnVars, lateVars >>
notCompress == << fbiVars, mailVars, repairVars, fnVars, lateVars >>
notRepair == << fbiVars, mailVars, compressVars, fnVars, lateVars >>
notFn == << fbiVars, mailVars, compressVars, repairVars, lateVars >>
notWait == << earlyVars, mboxVars, ciaVars, stateVars >>
notMbox == << earlyVars, waitVars, ciaVars, stateVars >>
notCia == << earlyVars, waitVars, mboxVars, stateVars >>
notState == << earlyVars, waitVars, mboxVars, ciaVars >>

vars == << earlyVars, lateVars >>

(***************************************************************************)
(* The site: the search lists NumDocs documents on two result pages.       *)
(***************************************************************************)
Urls == 1..NumDocs

SitePages == << [k \in 1..(NumDocs - 1) |-> k], << NumDocs >> >>

NumPages == Len(SitePages)

\* The links of results page p; page 0 is any page that is no results page.
SitePage(p) == IF p \in 1..NumPages THEN SitePages[p] ELSE << >>

OcrStatus == {"pending", "complete", "failed"}

Entry(u, s) == [url |-> u, ocr |-> s]

UrlsOf(list) == { list[k].url : k \in 1..Len(list) }

AllComplete(list) == \A k \in 1..Len(list) : list[k].ocr = "complete"

CountOcr(list, s) == Cardinality({ k \in 1..Len(list) : list[k].ocr = s })

(***************************************************************************)
(* The browser.  browser.driver is self.driver (0 is None), browser.live   *)
(* the drivers created and not yet quit, browser.created the number of     *)
(* drivers created, browser.ok whether the session behind self.driver      *)
(* answers, browser.page the results page it shows (0: another page).      *)
(***************************************************************************)
NoBrowser == [driver |-> 0, live |-> {}, created |-> 0, ok |-> FALSE, page |-> 0]

\* webdriver.Chrome(...) succeeded inside setup_driver: self.driver is the new driver.
NewDriver(b) ==
  [driver |-> b.created + 1, live |-> b.live \cup {b.created + 1},
   created |-> b.created + 1, ok |-> TRUE, page |-> 0]

\* self.driver.quit()
QuitDriver(b) == [b EXCEPT !.live = @ \ {b.driver}, !.ok = FALSE]

RecoverKeepOld(b) == b

\* recover_driver_session quits the old driver first.
RecoverQuitOld(b) == IF b.driver # 0 THEN QuitDriver(b) ELSE b

\* recover_driver_session: quit, setup_driver, search.  Each result is
\* [b, f, ret]: the browser and the fault count after it, and what it returns.
RecoverOutcomes(b, f) ==
  LET q == RecoverQuitOld(b) IN
    { [b |-> [NewDriver(q) EXCEPT !.page = 1], f |-> f, ret |-> TRUE],
      [b |-> q, f |-> f, ret |-> FALSE] }                          \* setup_driver raised
    \cup ( IF f < MaxFaults
           THEN { [b |-> NewDriver(q), f |-> f + 1, ret |-> FALSE] } \* search raised
           ELSE {} )

\* A call of a driver method.  res is "ok", "err" (an exception, the session
\* survives), "dead" (the session is gone: "invalid session id") or "conn" (the
\* driver was quit and never replaced: the connection is refused).
CallOutcomes(b, f) ==
  IF ~b.ok
  THEN { [res |-> IF b.driver \in b.live THEN "dead" ELSE "conn", b |-> b, f |-> f] }
  ELSE { [res |-> "ok", b |-> b, f |-> f] }
       \cup ( IF f < MaxFaults
              THEN { [res |-> "err", b |-> b, f |-> f + 1],
                     [res |-> "dead", b |-> [b EXCEPT !.ok = FALSE], f |-> f + 1] }
              ELSE {} )

\* check_driver_health: self.driver.current_url answers.
check_driver_health(b) == b.ok

\* get_result_links: the links of the page shown, [] on TimeoutException; any
\* other exception propagates (res "raise").
LinkOutcomes(b, f) ==
  IF ~b.ok THEN { [res |-> "raise", links |-> << >>, f |-> f] }
  ELSE { [res |-> "ok", links |-> SitePage(b.page), f |-> f] }
       \cup ( IF f < MaxFaults /\ SitePage(b.page) # << >>
              THEN { [res |-> "ok", links |-> << >>, f |-> f + 1] }
              ELSE {} )

\* navigate_to_next_page: clicks 'next' and returns True, or returns False when
\* there is no such link or on any exception.
NextPageOutcomes(b, f) ==
  IF b.ok /\ b.page \in 1..(NumPages - 1)
  THEN { [ret |-> TRUE, b |-> [b EXCEPT !.page = @ + 1], f |-> f] }
       \cup ( IF f < MaxFaults THEN { [ret |-> FALSE, b |-> b, f |-> f + 1] } ELSE {} )
  ELSE { [ret |-> FALSE, b |-> b, f |-> f] }

\* download_pdf: checks the driver (recovering it when unhealthy), triggers the
\* download, falls back to requests; returns a path (TRUE) or None (FALSE).
DownloadOutcomes(b, f) ==
  LET pre == IF check_driver_health(b)
             THEN { [b |-> b, f |-> f] }
             ELSE { [b |-> r.b, f |-> r.f] : r \in RecoverOutcomes(b, f) }
  IN { [path |-> p, b |-> x.b, f |-> x.f] : x \in pre, p \in BOOLEAN }


(***************************************************************************)
(* Local variables go out of scope when their function returns or an       *)
(* exception unwinds it: the model gives them their initial values again.  *)
(***************************************************************************)
PageLoopLocalsGone ==
  /\ search_page' = 0
  /\ result_links' = << >>
  /\ link_i' = 0
  /\ link_url' = 0
  /\ retry_count' = 0
  /\ psd_ret' = "none"

VerifyLocalsGone ==
  /\ attempt' = 0
  /\ total_available' = 0
  /\ downloaded_urls' = {}

\* run returns or is unwound: its tracking list is gone.
RunLocalsGone == downloaded_pdfs' = << >>

\* What run reads only in its download phase: max_documents, documents_processed,
\* all_downloaded (and the model's counts of loaded entries and of browser faults:
\* the fault bound limits the drivers that recovery creates, and only the download
\* phase recovers).
DownloadPhaseOver ==
  /\ faults' = 0
  /\ max_documents' = 0
  /\ documents_processed' = 0
  /\ all_downloaded' = "none"
  /\ n_loaded' = 0

OcrLocalsGone ==
  /\ ocr_call' = 0
  /\ ocr_pdfs' = << >>
  /\ ocr_attempts' = 0
  /\ ocr_idx' = 0
  /\ last_answer' = "none"

(***************************************************************************)
(* FBIVaultScraper.run                                                     *)
(***************************************************************************)
File(data) == [exists |-> TRUE, data |-> data]

\* self.results holds document records; nothing reads their order, so the model
\* keeps, for every url, the number of records with it.
NoResults == [u \in Urls |-> 0]

\* self.results.append(document)
AppendResult(res, u) == [res EXCEPT ![u] = @ + 1]

NoFile == [exists |-> FALSE, data |-> << >>]

\* What an earlier run of the same search may have left behind: nothing, or a
\* tracking file naming document 1 (and the results file when it was OCR'd).
InitFiles ==
  { [t |-> NoFile, r |-> NoFile] }
  \cup { [t |-> File(<< Entry(1, s) >>),
          r |-> IF s = "complete" THEN File(AppendResult(NoResults, 1)) ELSE NoFile] : s \in OcrStatus }

\* FBIVaultScraper.__init__: no driver, no results; nothing of run exists yet.
FBIConstructed ==
  /\ browser = NoBrowser
  /\ faults = 0
  /\ downloaded_pdfs = << >>
  /\ documents_processed = 0
  /\ search_page = 0
  /\ result_links = << >>
  /\ link_i = 0
  /\ link_url = 0
  /\ retry_count = 0
  /\ attempt = 0
  /\ total_available = 0
  /\ downloaded_urls = {}
  /\ all_downloaded = "none"
  /\ ocr_pdfs = << >>
  /\ ocr_call = 0
  /\ ocr_attempts = 0
  /\ ocr_idx = 0
  /\ results = NoResults
  /\ last_answer = "none"
  /\ n_loaded = 0
  /\ ocr_started = FALSE
  /\ psd_ret = "none"
  /\ interrupts = 0
  /\ handler = "none"
  /\ saved_in_handler = FALSE
  /\ tracking_removed = FALSE

\* The consolidation script before process_all_months is called.
NoEmbedded == [a \in 1..MaxAttachments |-> 0]

NoneSeen == [a \in 1..MaxAttachments |-> [type |-> "none", outcome |-> "none"]]

MailNotStarted(at) ==
  /\ m_pc = at
  /\ mpath = 0
  /\ n_folders = 0
  /\ folder_i = 0
  /\ n_attachments = 0
  /\ att_i = 0
  /\ embedded = NoEmbedded
  /\ consolidated = {}
  /\ pdf_written = {}
  /\ json_written = {}
  /\ soffice = FALSE
  /\ failed_at = << >>
  /\ att_seen = NoneSeen

\* The PDFs the compression script may meet under src, as the parts of their file
\* names between the dots: a.pdf, a.temp.pdf, a.temp.temp.pdf.
PdfNames ==
  { << "a", "pdf" >>, << "a", "temp", "pdf" >>, << "a", "temp", "temp", "pdf" >> }

\* output_path.with_suffix('.temp.pdf'): the last suffix is replaced.
WithSuffix(name) == SubSeq(name, 1, Len(name) - 1) \o << "temp", "pdf" >>

\* The paths under dst that main reads or writes.
DstPaths == PdfNames \cup { WithSuffix(n) : n \in PdfNames }

NoPdf == [size |-> 0, of |-> << >>, by |-> "nothing"]

\* The compression script before main is called.
CompressNotStarted ==
  /\ c_pc = "idle"
  /\ src_exists = FALSE
  /\ gs_exe = FALSE
  /\ src_pdfs = [n \in PdfNames |-> 0]
  /\ dst_made = FALSE
  /\ dst_pdfs = [p \in DstPaths |-> NoPdf]
  /\ dst_at_start = [p \in DstPaths |-> NoPdf]
  /\ all_pdfs = << >>
  /\ pdf_i = 0
  /\ handled = {}

\* The repair script before main is called.
RepairNotStarted ==
  /\ r_pc = "idle"
  /\ pdfs_to_process = 0
  /\ r_i = 0
  /\ method_i = 0
  /\ success = FALSE
  /\ method_used = ""
  /\ out_size = [f \in 1..MaxPdfs |-> 0]
  /\ processed_pdfs = {}
  /\ failed_files = {}
  /\ tried = [f \in 1..MaxPdfs |-> << >>]

\* No function is being checked on its own.
NoCall ==
  /\ f_call = [fn |-> "none"]
  /\ f_ret = [kind |-> "pending"]

\* The files the download directory can hold: the leftover of an earlier
\* document, the document being downloaded, and Chrome's partial download of it.
\* A name is the sequence of its dot-separated parts.
DownloadFiles == { << "x", "pdf" >>, << "y", "pdf" >>, << "y", "pdf", "crdownload" >> }

\* The size of a file that does not exist.
Absent == 0 - 1

\* No file name: None.
NoName == << >>

\* No wait for a download has begun.
WaitNotStarted ==
  /\ w_pc = "idle"
  /\ expected_filename = NoName
  /\ w_dir = [f \in DownloadFiles |-> Absent]
  /\ w_dir0 = [f \in DownloadFiles |-> Absent]
  /\ seen_files = {}
  /\ current_files = {}
  /\ new_file = NoName
  /\ size1 = 0
  /\ last_file_count = 0
  /\ stable_count_checks = 0
  /\ w_polls = 0
  /\ w_ret = [kind |-> "pending"]

\* The mbox extraction before process_mbox is called.
MboxNotStarted ==
  /\ b_pc = "idle"
  /\ n_messages = 0
  /\ msg_key = 0
  /\ mbox_processed = 0
  /\ error_count = 0
  /\ msg_outcome = [m \in 1..MaxMessages |-> << >>]

\* The CIA scraper before scrape_document_pages is called.
CiaNotStarted ==
  /\ cia_pc = "idle"
  /\ document_urls = << >>
  /\ layer_1 = {}
  /\ layer_1_at_start = {}
  /\ downloaded = {}
  /\ urls_to_scrape = << >>
  /\ url_i = 0
  /\ fetched = [d \in 1..NumUrls |-> << >>]
  /\ cia_driver = "none"

\* The allowances scraper before layer_0 is called.
StateNotStarted ==
  /\ s_pc = "idle"
  /\ date_values = 0
  /\ date_i = 0
  /\ csv_files = {}
  /\ csv_at_start = {}
  /\ date_fetches = [d \in 1..NumDates |-> << >>]
  /\ s_driver = "none"
  /\ s_escaped = "none"

LateNotStarted ==
  /\ WaitNotStarted
  /\ MboxNotStarted
  /\ CiaNotStarted
  /\ StateNotStarted

\* main: scraper.run(search_term, max_documents), with what an earlier run left.
InitFBI ==
  /\ pc = "setup"
  /\ max_documents \in 0..NumDocs
  /\ \E i \in InitFiles : tracking_file = i.t /\ results_file = i.r
  /\ FBIConstructed
  /\ MailNotStarted("idle")
  /\ CompressNotStarted
  /\ RepairNotStarted
  /\ NoCall
  /\ LateNotStarted

\* An exception reaches 'except Exception' of run.
Fatal ==
  /\ pc' = "fatal_handler"
  /\ handler' = "fatal"
  /\ UNCHANGED << saved_in_handler, tracking_removed >>

\* run: self.setup_driver()
SetupDriver ==
  /\ pc = "setup"
  /\ \/ /\ browser' = NewDriver(browser)
        /\ pc' = "search"
        /\ UNCHANGED endVars
     \/ /\ Fatal                      \* 'All driver setup methods failed'
        /\ UNCHANGED browser
  /\ UNCHANGED << cfgVars, faults, dlVars, loopVars, verifyVars, ocrVars, interrupts >>
  /\ UNCHANGED notFBI

\* initialize_download_phase: the tracking list it returns.
initialize_download_phase(file) == IF file.exists THEN file.data ELSE << >>

\* run: self.search(search_term), initialize_download_phase, documents_processed
Search ==
  /\ pc = "search"
  /\ \E c \in CallOutcomes(browser, faults) :
       /\ faults' = c.f
       /\ IF c.res = "ok"
          THEN /\ browser' = [c.b EXCEPT !.page = 1]
               /\ downloaded_pdfs' = initialize_download_phase(tracking_file)
               /\ documents_processed' = Len(downloaded_pdfs')
               /\ n_loaded' = Len(downloaded_pdfs')
               /\ pc' = "page_loop"
               /\ UNCHANGED endVars
          ELSE /\ browser' = c.b
               /\ Fatal
               /\ UNCHANGED << downloaded_pdfs, documents_processed, n_loaded >>
  /\ UNCHANGED << max_documents, tracking_file, loopVars, verifyVars, ocrVars, interrupts >>
  /\ UNCHANGED notFBI

\* run, main download loop: get_result_links, break when there is none.
PageLoop ==
  /\ pc = "page_loop"
  /\ \E l \in LinkOutcomes(browser, faults) :
       /\ faults' = l.f
       /\ IF l.res = "raise"
          THEN Fatal /\ UNCHANGED << search_page, attempt >>
          ELSE IF l.links = << >>
          THEN /\ pc' = "verify"
               /\ attempt' = 1
               /\ UNCHANGED << search_page, endVars >>
          ELSE /\ pc' = "ppd_start"
               /\ search_page' = browser.page
               /\ UNCHANGED << attempt, endVars >>
  /\ UNCHANGED << cfgVars, browser, dlVars, result_links, link_i, link_url, retry_count,
                  psd_ret, total_available, downloaded_urls, all_downloaded, ocrVars,
                  interrupts >>
  /\ UNCHANGED notFBI

\* process_page_downloads: result_links = self.get_result_links()
PpdStart ==
  /\ pc = "ppd_start"
  /\ \E l \in LinkOutcomes(browser, faults) :
       /\ faults' = l.f
       /\ IF l.res = "raise"
          THEN Fatal /\ UNCHANGED << result_links, link_i >>
          ELSE /\ result_links' = l.links
               /\ link_i' = 0
               /\ pc' = "ppd_iter"
               /\ UNCHANGED endVars
  /\ UNCHANGED << cfgVars, browser, dlVars, search_page, link_url, retry_count, psd_ret,
                  verifyVars, ocrVars, interrupts >>
  /\ UNCHANGED notFBI

\* process_page_downloads: 'if max_documents and documents_processed >= max_documents'
ReachedMax(maxd, processed) == maxd # 0 /\ processed >= maxd

\* process_single_document_download: 'if any(pdf['url'] == link_url ...)'
AlreadyDownloaded(u, list) == u \in UrlsOf(list)

\* process_page_downloads: one round of 'for i in range(len(result_links))', up to
\* the call of process_single_document_download and its already-downloaded check.
PpdIter ==
  /\ pc = "ppd_iter"
  /\ IF link_i >= Len(result_links)
     THEN /\ pc' = "next_page"
          /\ UNCHANGED << faults, link_i, link_url, retry_count, psd_ret, attempt, endVars >>
     ELSE IF ReachedMax(max_documents, documents_processed)
     THEN /\ pc' = "verify"
          /\ attempt' = 1
          /\ UNCHANGED << faults, link_i, link_url, retry_count, psd_ret, endVars >>
     ELSE \E l \in LinkOutcomes(browser, faults) :
            /\ faults' = l.f
            /\ IF l.res = "raise"
               THEN Fatal /\ UNCHANGED << link_i, link_url, retry_count, psd_ret, attempt >>
               ELSE IF link_i >= Len(l.links)
               THEN /\ pc' = "next_page"
                    /\ UNCHANGED << link_i, link_url, retry_count, psd_ret, attempt, endVars >>
               ELSE IF AlreadyDownloaded(l.links[link_i + 1], downloaded_pdfs)
               THEN /\ link_url' = l.links[link_i + 1]
                    /\ psd_ret' = "true"
                    /\ link_i' = link_i + 1
                    /\ pc' = "ppd_iter"
                    /\ UNCHANGED << retry_count, attempt, endVars >>
               ELSE /\ link_url' = l.links[link_i + 1]
                    /\ psd_ret' = "none"
                    /\ retry_count' = 0
                    /\ pc' = "psd_loop"
                    /\ UNCHANGED << link_i, attempt, endVars >>
  /\ UNCHANGED << cfgVars, browser, dlVars, search_page, result_links, total_available,
                  downloaded_urls, all_downloaded, ocrVars, interrupts >>
  /\ UNCHANGED notFBI

\* run: 'if not self.navigate_to_next_page(): break'
NextPage ==
  /\ pc = "next_page"
  /\ \E n \in NextPageOutcomes(browser, faults) :
       /\ browser' = n.b
       /\ faults' = n.f
       /\ IF n.ret
          THEN pc' = "page_loop" /\ UNCHANGED attempt
          ELSE pc' = "verify" /\ attempt' = 1
  /\ UNCHANGED << cfgVars, dlVars, loopVars, total_available, downloaded_urls,
                  all_downloaded, ocrVars, endVars, interrupts >>
  /\ UNCHANGED notFBI

(***************************************************************************)
(* process_single_document_download, the retry loop                        *)
(***************************************************************************)
\* 'while retry_count < max_retries'
RetryAgain(rc) == rc < max_retries

\* 'if "invalid session id" in str(e)' of the except block
InvalidSession(kind) == kind = "dead"

\* The except block of the retry loop, entered with exception kind `kind` and
\* counter rc already incremented: recover on "invalid session id" and read
\* self.driver.current_url (an exception there leaves the method: escaped), then,
\* if another attempt follows, go back to the results page inside try/except.
PsdHandlerOutcomes(b, f, kind, rc, sp) ==
  LET rec == IF InvalidSession(kind)
             THEN { [b |-> r.b, f |-> r.f, sp |-> r.b.page, escaped |-> ~r.b.ok] :
                      r \in RecoverOutcomes(b, f) }
             ELSE { [b |-> b, f |-> f, sp |-> sp, escaped |-> FALSE] }
      back(x) == IF x.escaped \/ ~RetryAgain(rc)
                 THEN { x }
                 ELSE { [b |-> IF c.res = "ok" THEN [c.b EXCEPT !.page = x.sp] ELSE c.b,
                         f |-> c.f, sp |-> x.sp, escaped |-> FALSE] :
                          c \in CallOutcomes(x.b, x.f) }
  IN UNION { back(x) : x \in rec }

\* An exception of kind `kind` is raised inside the try block of the retry loop.
PsdExcept(b, f, kind) ==
  \E h \in PsdHandlerOutcomes(b, f, kind, retry_count + 1, search_page) :
    /\ browser' = h.b
    /\ faults' = h.f
    /\ retry_count' = retry_count + 1
    /\ IF h.escaped
       THEN /\ psd_ret' = "escaped"
            /\ Fatal
            /\ UNCHANGED search_page
       ELSE /\ search_page' = h.sp
            /\ pc' = "psd_loop"
            /\ UNCHANGED << psd_ret, endVars >>

\* Top of the retry loop: the loop test and the driver health check.  A keyboard
\* interrupt raised inside check_driver_health is caught by its bare except:
\* the check answers False.
PsdHealth ==
  /\ pc = "psd_loop"
  /\ IF ~RetryAgain(retry_count)
     THEN /\ psd_ret' = "false"
          /\ link_i' = link_i + 1
          /\ pc' = "ppd_iter"
          /\ UNCHANGED << envVars, search_page, retry_count, endVars, interrupts >>
     ELSE \E swallowed \in BOOLEAN :
            /\ swallowed => interrupts < MaxInterrupts
            /\ interrupts' = IF swallowed THEN interrupts + 1 ELSE interrupts
            /\ UNCHANGED link_i
            /\ IF check_driver_health(browser) /\ ~swallowed
               THEN /\ pc' = "psd_nav"
                    /\ UNCHANGED << envVars, search_page, retry_count, psd_ret, endVars >>
               ELSE \E r \in RecoverOutcomes(browser, faults) :
                      IF r.b.ok
                      THEN /\ browser' = r.b
                           /\ faults' = r.f
                           /\ search_page' = r.b.page
                           /\ pc' = "psd_nav"
                           /\ UNCHANGED << retry_count, psd_ret, endVars >>
                      ELSE PsdExcept(r.b, r.f, "conn")
  /\ UNCHANGED << cfgVars, dlVars, result_links, link_url, verifyVars, ocrVars >>
  /\ UNCHANGED notFBI

\* self.driver.get(link_url)
PsdNav ==
  /\ pc = "psd_nav"
  /\ \E c \in CallOutcomes(browser, faults) :
       IF c.res = "ok"
       THEN /\ browser' = [c.b EXCEPT !.page = 0]
            /\ faults' = c.f
            /\ pc' = "psd_extract"
            /\ UNCHANGED << search_page, retry_count, psd_ret, endVars >>
       ELSE PsdExcept(c.b, c.f, c.res)
  /\ UNCHANGED << cfgVars, dlVars, result_links, link_i, link_url, verifyVars, ocrVars,
                  interrupts >>
  /\ UNCHANGED notFBI

\* pdf_url = self.extract_pdf_url_from_page(); without one, back to the results
\* page and 'retry_count += 1; continue'.
PsdExtract ==
  /\ pc = "psd_extract"
  /\ \E found \in BOOLEAN :
       IF found
       THEN /\ pc' = "psd_download"
            /\ UNCHANGED << envVars, search_page, retry_count, psd_ret, endVars >>
       ELSE \E c \in CallOutcomes(browser, faults) :
              IF c.res = "ok"
              THEN /\ browser' = [c.b EXCEPT !.page = search_page]
                   /\ faults' = c.f
                   /\ retry_count' = retry_count + 1
                   /\ pc' = "psd_loop"
                   /\ UNCHANGED << search_page, psd_ret, endVars >>
              ELSE PsdExcept(c.b, c.f, c.res)
  /\ UNCHANGED << cfgVars, dlVars, result_links, link_i, link_url, verifyVars, ocrVars,
                  interrupts >>
  /\ UNCHANGED notFBI

\* pdf_path = self.download_pdf(...); on a path: append to the tracking list, count,
\* save the tracking file, return to the results page and return True; on None:
\* 'retry_count += 1'.
PsdDownload ==
  /\ pc = "psd_download"
  /\ \E d \in DownloadOutcomes(browser, faults) :
       IF d.path
       THEN /\ downloaded_pdfs' = Append(downloaded_pdfs, Entry(link_url, "pending"))
            /\ documents_processed' = documents_processed + 1
            /\ tracking_file' = File(downloaded_pdfs')
            /\ \E c \in CallOutcomes(d.b, d.f) :
                 IF c.res = "ok"
                 THEN /\ browser' = [c.b EXCEPT !.page = search_page]
                      /\ faults' = c.f
                      /\ psd_ret' = "true"
                      /\ link_i' = link_i + 1
                      /\ pc' = "ppd_iter"
                      /\ UNCHANGED << search_page, retry_count, endVars >>
                 ELSE PsdExcept(c.b, c.f, c.res) /\ UNCHANGED link_i
       ELSE /\ browser' = d.b
            /\ faults' = d.f
            /\ retry_count' = retry_count + 1
            /\ pc' = "psd_loop"
            /\ UNCHANGED << dlVars, search_page, psd_ret, link_i, endVars >>
  /\ UNCHANGED << cfgVars, result_links, link_url, verifyVars, ocrVars, interrupts >>
  /\ UNCHANGED notFBI

(***************************************************************************)
(* verify_downloads_complete and download_missing_documents                *)
(***************************************************************************)
\* One verification attempt begins: self.driver.get(search url), total_available = 0
VerifyBegin ==
  /\ pc = "verify"
  /\ \E c \in CallOutcomes(browser, faults) :
       /\ faults' = c.f
       /\ IF c.res = "ok"
          THEN /\ browser' = [c.b EXCEPT !.page = 1]
               /\ total_available' = 0
               /\ pc' = "verify_count"
               /\ UNCHANGED endVars
          ELSE /\ browser' = c.b
               /\ Fatal
               /\ UNCHANGED total_available
  /\ PageLoopLocalsGone
  /\ UNCHANGED << cfgVars, dlVars, attempt, downloaded_urls, all_downloaded, ocrVars,
                  interrupts >>
  /\ UNCHANGED notFBI

\* The counting loop: 'total_available += len(result_links)', then next page or break.
VerifyCount ==
  /\ pc = "verify_count"
  /\ \E l \in LinkOutcomes(browser, faults) :
       IF l.res = "raise"
       THEN /\ faults' = l.f
            /\ Fatal
            /\ UNCHANGED << browser, total_available >>
       ELSE /\ total_available' = total_available + Len(l.links)
            /\ \E n \in NextPageOutcomes(browser, l.f) :
                 /\ browser' = n.b
                 /\ faults' = n.f
                 /\ pc' = IF n.ret THEN "verify_count" ELSE "verify_cmp"
            /\ UNCHANGED endVars
  /\ UNCHANGED << cfgVars, dlVars, loopVars, attempt, downloaded_urls, all_downloaded,
                  ocrVars, interrupts >>
  /\ UNCHANGED notFBI

\* 'if len(downloaded_pdfs) >= total_available'
CountsSayComplete(list, total) == Len(list) >= total

\* The comparison: return True, or download the missing ones, or (last attempt)
\* fall out of the loop and return False.
VerifyCompare ==
  /\ pc = "verify_cmp"
  /\ IF CountsSayComplete(downloaded_pdfs, total_available)
     THEN /\ all_downloaded' = "true"
          /\ pc' = "ocr_gate"
          /\ UNCHANGED downloaded_urls
     ELSE IF attempt < max_verification_attempts
     THEN /\ downloaded_urls' = UrlsOf(downloaded_pdfs)
          /\ pc' = "missing_start"
          /\ UNCHANGED all_downloaded
     ELSE /\ all_downloaded' = "false"
          /\ pc' = "ocr_gate"
          /\ UNCHANGED downloaded_urls
  /\ UNCHANGED << cfgVars, envVars, dlVars, loopVars, attempt, total_available, ocrVars,
                  endVars, interrupts >>
  /\ UNCHANGED notFBI

\* download_missing_documents: self.driver.get(search url)
MissingStart ==
  /\ pc = "missing_start"
  /\ \E c \in CallOutcomes(browser, faults) :
       /\ faults' = c.f
       /\ IF c.res = "ok"
          THEN /\ browser' = [c.b EXCEPT !.page = 1]
               /\ pc' = "missing_page"
               /\ UNCHANGED endVars
          ELSE /\ browser' = c.b
               /\ Fatal
  /\ UNCHANGED << cfgVars, dlVars, loopVars, verifyVars, ocrVars, interrupts >>
  /\ UNCHANGED notFBI

\* download_missing_documents: result_links = self.get_result_links()
MissingPage ==
  /\ pc = "missing_page"
  /\ \E l \in LinkOutcomes(browser, faults) :
       /\ faults' = l.f
       /\ IF l.res = "raise"
          THEN Fatal /\ UNCHANGED << result_links, link_i >>
          ELSE /\ result_links' = l.links
               /\ link_i' = 0
               /\ pc' = "missing_link"
               /\ UNCHANGED endVars
  /\ UNCHANGED << cfgVars, browser, dlVars, search_page, link_url, retry_count, psd_ret,
                  verifyVars, ocrVars, interrupts >>
  /\ UNCHANGED notFBI

\* download_missing_documents: 'if link_url not in downloaded_urls'
IsMissing(u, urls) == u \notin urls

\* The try block for one missing link: open the document page, find the PDF link,
\* download_pdf, record the entry, self.driver.back(); any exception is logged.
\* Each result is [b, f, got]: got says whether an entry was recorded.
MissingTryOutcomes(b, f) ==
  LET opened == { c \in CallOutcomes(b, f) : c.res = "ok" }
      failed == { [b |-> c.b, f |-> c.f, got |-> FALSE] :
                    c \in { x \in CallOutcomes(b, f) : x.res # "ok" } }
      fetch(c) == { [b |-> [c.b EXCEPT !.page = 0], f |-> c.f, got |-> FALSE] }
                  \cup { [b |-> d.b, f |-> d.f, got |-> d.path] :
                           d \in DownloadOutcomes([c.b EXCEPT !.page = 0], c.f) }
      back(x) == { [b |-> IF k.res = "ok" THEN [k.b EXCEPT !.page = b.page] ELSE k.b,
                    f |-> k.f, got |-> x.got] : k \in CallOutcomes(x.b, x.f) }
  IN failed \cup UNION { back(x) : x \in UNION { fetch(c) : c \in opened } }

\* download_missing_documents: one round of 'for link in result_links', or, after
\* the last link, the next page / the return to verify_downloads_complete.
MissingLink ==
  /\ pc = "missing_link"
  /\ IF link_i >= Len(result_links)
     THEN /\ \E n \in NextPageOutcomes(browser, faults) :
               /\ browser' = n.b
               /\ faults' = n.f
               /\ IF n.ret
                  THEN pc' = "missing_page" /\ UNCHANGED attempt
                  ELSE pc' = "verify" /\ attempt' = attempt + 1
          /\ UNCHANGED << dlVars, link_i, link_url, downloaded_urls >>
     ELSE /\ link_url' = result_links[link_i + 1]
          /\ link_i' = link_i + 1
          /\ pc' = "missing_link"
          /\ UNCHANGED << attempt, documents_processed >>
          /\ IF IsMissing(link_url', downloaded_urls)
             THEN \E m \in MissingTryOutcomes(browser, faults) :
                    /\ browser' = m.b
                    /\ faults' = m.f
                    /\ IF m.got
                       THEN /\ downloaded_pdfs' =
                                 Append(downloaded_pdfs, Entry(link_url', "pending"))
                            /\ downloaded_urls' = downloaded_urls \cup {link_url'}
                            /\ tracking_file' = File(downloaded_pdfs')
                       ELSE UNCHANGED << downloaded_pdfs, downloaded_urls, tracking_file >>
             ELSE UNCHANGED << envVars, downloaded_pdfs, downloaded_urls, tracking_file >>
  /\ UNCHANGED << cfgVars, search_page, result_links, retry_count, psd_ret,
                  total_available, all_downloaded, ocrVars, endVars, interrupts >>
  /\ UNCHANGED notFBI

(***************************************************************************)
(* process_ocr_phase, verify_all_ocr_complete, cleanup and handlers        *)
(***************************************************************************)
Answers == {"y", "n"}

\* run: 'if downloaded_pdfs:' guards the OCR phase.
OcrGate ==
  /\ pc = "ocr_gate"
  /\ IF downloaded_pdfs # << >>
     THEN pc' = "ocr_load" /\ ocr_call' = 1
     ELSE pc' = "cleanup" /\ UNCHANGED ocr_call
  /\ PageLoopLocalsGone
  /\ VerifyLocalsGone
  /\ DownloadPhaseOver
  /\ UNCHANGED << browser, downloaded_pdfs, tracking_file, ocr_pdfs, ocr_attempts,
                  ocr_idx, results, results_file, last_answer, ocr_started, endVars,
                  interrupts >>
  /\ UNCHANGED notFBI

\* process_ocr_phase: reload the tracking list and the results from their files.
OcrLoad ==
  /\ pc = "ocr_load"
  /\ ocr_pdfs' = IF tracking_file.exists THEN tracking_file.data ELSE downloaded_pdfs
  /\ results' = IF results_file.exists THEN results_file.data ELSE results
  /\ ocr_attempts' = 0
  /\ last_answer' = "none"
  /\ pc' = "ocr_top"
  /\ UNCHANGED << cfgVars, envVars, dlVars, loopVars, verifyVars, ocr_call, ocr_idx,
                  results_file, ocr_started, endVars, interrupts >>
  /\ UNCHANGED notFBI

OcrAllDoneCountingFailed(list) ==
  CountOcr(list, "complete") + CountOcr(list, "failed") = Len(list)

\* 'if ocr_complete == total_pdfs: break'
OcrAllDone(list) == CountOcr(list, "complete") = Len(list)

\* 'if ocr_attempts >= max_ocr_attempts and ocr_failed > 0' asks the user.
OcrAsksAtTop(list, attempts) ==
  attempts >= max_ocr_attempts /\ CountOcr(list, "failed") > 0

\* Top of 'while True': leave when all are complete, ask when out of attempts,
\* otherwise start a pass.
OcrTop ==
  /\ pc = "ocr_top"
  /\ IF OcrAllDone(ocr_pdfs)
     THEN pc' = "ocr_report" /\ UNCHANGED << ocr_idx, last_answer >>
     ELSE IF OcrAsksAtTop(ocr_pdfs, ocr_attempts)
     THEN \E a \in Answers :
            /\ a = "y" => ocr_attempts < MaxOcrPasses
            /\ last_answer' = a
            /\ IF a = "y"
               THEN pc' = "ocr_for" /\ ocr_idx' = 1
               ELSE pc' = "ocr_report" /\ UNCHANGED ocr_idx
     ELSE pc' = "ocr_for" /\ ocr_idx' = 1 /\ UNCHANGED last_answer
  /\ UNCHANGED << cfgVars, envVars, dlVars, loopVars, verifyVars, ocr_pdfs, ocr_call,
                  ocr_attempts, results, results_file, ocr_started, endVars, interrupts >>
  /\ UNCHANGED notFBI

OcrSkipsOnlyFailed(e, attempts) == e.ocr = "failed" /\ attempts >= max_ocr_attempts

\* The for loop skips an entry that is complete, and a failed one once the
\* attempts are used up.
OcrSkips(e, attempts) ==
  e.ocr = "complete" \/ (e.ocr = "failed" /\ attempts >= max_ocr_attempts)

\* 'self.driver.get(pdf_info['url'])' of the OCR loop, inside try/except: the page
\* is shown, or the call fails and the failure is ignored.  The OCR phase never
\* checks or recovers the driver, so of the failures the model keeps the one that
\* costs the session (it stays dead until run ends).
OcrFetchOutcomes(b) ==
  IF b.ok THEN { [b EXCEPT !.page = 0], [b EXCEPT !.ok = FALSE] } ELSE { b }

\* After a pass: 'if ocr_complete < total_pdfs' and 'ocr_attempts < max_ocr_attempts'
OcrAsksAfterPass(list, attempts) ==
  CountOcr(list, "complete") < Len(list) /\ ~(attempts < max_ocr_attempts)

\* The for loop of a pass: one entry; after the last one the attempt counter
\* and the question whether to go on.
OcrFor ==
  /\ pc = "ocr_for"
  /\ IF ocr_idx > Len(ocr_pdfs)
     THEN /\ ocr_attempts' = ocr_attempts + 1
          /\ IF OcrAsksAfterPass(ocr_pdfs, ocr_attempts')
             THEN \E a \in Answers :
                    /\ a = "y" => ocr_attempts' < MaxOcrPasses
                    /\ last_answer' = a
                    /\ pc' = IF a = "y" THEN "ocr_top" ELSE "ocr_report"
             ELSE pc' = "ocr_top" /\ UNCHANGED last_answer
          /\ UNCHANGED << envVars, tracking_file, ocr_pdfs, ocr_idx, results, results_file,
                          ocr_started, interrupts >>
     ELSE /\ ocr_idx' = ocr_idx + 1
          /\ pc' = "ocr_for"
          /\ UNCHANGED << ocr_attempts, last_answer >>
          /\ IF OcrSkips(ocr_pdfs[ocr_idx], ocr_attempts)
             THEN UNCHANGED << envVars, tracking_file, ocr_pdfs, results, results_file,
                               ocr_started, interrupts >>
             ELSE \* extract_text_from_pdf, then self.driver.get(url) inside a bare
                  \* except (which also catches a keyboard interrupt), then the verdict
                  /\ ocr_started' = TRUE
                  /\ \E swallowed \in BOOLEAN :
                       /\ swallowed => interrupts < MaxInterrupts
                       /\ interrupts' = IF swallowed THEN interrupts + 1 ELSE interrupts
                  /\ browser' \in OcrFetchOutcomes(browser)
                  /\ UNCHANGED faults
                  /\ \E verdict \in {"text", "notext", "exception"} :
                       /\ ocr_pdfs' = [ocr_pdfs EXCEPT ![ocr_idx].ocr =
                                         IF verdict = "text" THEN "complete" ELSE "failed"]
                       /\ results' = IF verdict = "text"
                                     THEN AppendResult(results, ocr_pdfs[ocr_idx].url)
                                     ELSE results
                       /\ tracking_file' = File(ocr_pdfs')
                       /\ results_file' = IF verdict = "exception"
                                          THEN results_file ELSE File(results')
  /\ UNCHANGED << cfgVars, downloaded_pdfs, documents_processed, loopVars, verifyVars,
                  ocr_call, endVars >>
  /\ UNCHANGED notFBI

AfterOcrPhaseBackToDownloads(call) == IF call = 1 THEN "page_loop" ELSE "cleanup"

\* run: what follows a call of process_ocr_phase: the final verification after the
\* first call, the cleanup after the second.
AfterOcrPhase(call) == IF call = 1 THEN "ocr_verify" ELSE "cleanup"

\* process_ocr_phase returns after its final status report.
OcrReport ==
  /\ pc = "ocr_report"
  /\ pc' = AfterOcrPhase(ocr_call)
  /\ ocr_pdfs' = << >>
  /\ ocr_attempts' = 0
  /\ ocr_idx' = 0
  /\ last_answer' = "none"
  /\ UNCHANGED << cfgVars, envVars, dlVars, loopVars, verifyVars, ocr_call, results,
                  results_file, ocr_started, endVars, interrupts >>
  /\ UNCHANGED notFBI

\* verify_all_ocr_complete: the answers it can give.  With the tracking file
\* present and an entry not complete it asks 'Exit anyway?' and returns True on 'y'.
VerifyAllOcrAnswers(file) ==
  IF file.exists /\ ~AllComplete(file.data) THEN BOOLEAN ELSE {TRUE}

\* run: 'if not self.verify_all_ocr_complete(...)' re-enters the OCR phase.
OcrVerify ==
  /\ pc = "ocr_verify"
  /\ \E v \in VerifyAllOcrAnswers(tracking_file) :
       IF v THEN pc' = "cleanup" /\ UNCHANGED ocr_call
            ELSE pc' = "ocr_load" /\ ocr_call' = 2
  /\ UNCHANGED << cfgVars, envVars, dlVars, loopVars, verifyVars, ocr_pdfs, ocr_attempts,
                  ocr_idx, results, results_file, last_answer, ocr_started, endVars,
                  interrupts >>
  /\ UNCHANGED notFBI

\* run, cleanup: 'if os.path.exists(tracking_file) and self.verify_all_ocr_complete(...)'
RemovesTrackingFile(file, verified) == file.exists /\ verified

Cleanup ==
  /\ pc = "cleanup"
  /\ \E v \in VerifyAllOcrAnswers(tracking_file) :
       IF RemovesTrackingFile(tracking_file, v)
       THEN /\ tracking_file' = [tracking_file EXCEPT !.exists = FALSE]
            /\ tracking_removed' = TRUE
       ELSE UNCHANGED << tracking_file, tracking_removed >>
  /\ pc' = "finally"
  /\ RunLocalsGone
  /\ ocr_call' = 0
  /\ UNCHANGED << cfgVars, envVars, documents_processed, loopVars, verifyVars, ocr_pdfs,
                  ocr_attempts, ocr_idx, results, results_file, last_answer, ocr_started,
                  handler, saved_in_handler, interrupts >>
  /\ UNCHANGED notFBI

\* The positions of run inside its try block.
BodyPcs ==
  { "setup", "search", "page_loop", "ppd_start", "ppd_iter", "psd_loop", "psd_nav",
    "psd_extract", "psd_download", "next_page", "verify", "verify_count", "verify_cmp",
    "missing_start", "missing_page", "missing_link", "ocr_gate", "ocr_load", "ocr_top",
    "ocr_for", "ocr_report", "ocr_verify", "cleanup" }

\* A keyboard interrupt that no inner handler catches reaches 'except KeyboardInterrupt'.
KeyboardInterrupt ==
  /\ pc \in BodyPcs
  /\ interrupts < MaxInterrupts
  /\ interrupts' = interrupts + 1
  /\ pc' = "kbd_handler"
  /\ handler' = "kbd"
  /\ PageLoopLocalsGone
  /\ VerifyLocalsGone
  /\ DownloadPhaseOver
  /\ OcrLocalsGone
  /\ RunLocalsGone
  /\ UNCHANGED << browser, tracking_file, results, results_file, ocr_started,
                  saved_in_handler, tracking_removed >>
  /\ UNCHANGED notFBI

\* Both handlers of run: self.save_results(search_term)
Handler ==
  /\ pc \in {"kbd_handler", "fatal_handler"}
  /\ results_file' = File(results)
  /\ saved_in_handler' = TRUE
  /\ pc' = "finally"
  /\ PageLoopLocalsGone
  /\ VerifyLocalsGone
  /\ DownloadPhaseOver
  /\ OcrLocalsGone
  /\ RunLocalsGone
  /\ UNCHANGED << browser, tracking_file, results, ocr_started, handler,
                  tracking_removed, interrupts >>
  /\ UNCHANGED notFBI

\* run, finally: 'if self.driver: self.driver.quit()'
FinallyQuit(b) == IF b.driver # 0 THEN QuitDriver(b) ELSE b

Finally ==
  /\ pc = "finally"
  /\ browser' = FinallyQuit(browser)
  /\ pc' = "returned"
  /\ UNCHANGED << cfgVars, faults, dlVars, loopVars, verifyVars, ocrVars, endVars,
                  interrupts >>
  /\ UNCHANGED notFBI

NextFBI ==
  \/ SetupDriver \/ Search \/ PageLoop \/ PpdStart \/ PpdIter \/ NextPage
  \/ PsdHealth \/ PsdNav \/ PsdExtract \/ PsdDownload
  \/ VerifyBegin \/ VerifyCount \/ VerifyCompare
  \/ MissingStart \/ MissingPage \/ MissingLink
  \/ OcrGate \/ OcrLoad \/ OcrTop \/ OcrFor \/ OcrReport \/ OcrVerify
  \/ Cleanup \/ KeyboardInterrupt \/ Handler \/ Finally

SpecFBI == InitFBI /\ [][NextFBI]_vars

(***************************************************************************)
(* Properties of FBIVaultScraper.run                                       *)
(***************************************************************************)
\* The positions of the download phase: the download loop and the verification
\* pass with its download of missing documents.
DownloadPcs ==
  { "page_loop", "ppd_start", "ppd_iter", "psd_loop", "psd_nav", "psd_extract",
    "psd_download", "next_page", "verify", "verify_count", "verify_cmp",
    "missing_start", "missing_page", "missing_link" }

NoTwoEntriesShareUrl(list) ==
  \A i, j \in 1..Len(list) : list[i].url = list[j].url => i = j

\* C2: with max_documents = N the download phase (download loop and verification
\* pass together) adds no more than N documents to the tracking list.
C2_AtMostMaxDownloaded ==
  (pc \in DownloadPcs \cup {"ocr_gate"} /\ max_documents > 0)
    => Len(downloaded_pdfs) - n_loaded <= max_documents

\* C3: the run is two sequential phases: while the run is anywhere in its download
\* phase no PDF has been handed to OCR yet, and once one has been, the run is
\* never in the download phase again.
C3_DownloadThenOcr == pc \in DownloadPcs \cup {"setup", "search", "ocr_gate"} => ~ocr_started

C3_Witness == ocr_started /\ ocr_call = 2 /\ pc = "ocr_for"

\* C4: no URL is downloaded twice: the tracking list never holds two entries
\* with the same url.
C4_NoDuplicateUrl ==
  /\ NoTwoEntriesShareUrl(downloaded_pdfs)
  /\ tracking_file.exists => NoTwoEntriesShareUrl(tracking_file.data)

\* C5: the tracking file is removed only when every entry in it is 'complete'.
C5_RemovedOnlyWhenAllComplete == tracking_removed => AllComplete(tracking_file.data)

\* C6: the loop of process_ocr_phase is left only when every entry is complete
\* or right after the user answered something other than 'y'.
C6_OcrLoopExit == pc = "ocr_report" => (AllComplete(ocr_pdfs) \/ last_answer = "n")

C6_Witness ==
  /\ pc = "ocr_report"
  /\ ~AllComplete(ocr_pdfs)
  /\ last_answer = "n"
  /\ ocr_attempts > max_ocr_attempts

\* C7: process_single_document_download ends after at most max_retries attempts
\* by returning; no error of a single document leaves it as an exception.
C7_ReturnsWithinRetries == retry_count <= max_retries /\ psd_ret # "escaped"

\* C8: verify_downloads_complete returns True only when every URL the search
\* lists is in the tracking list.
C8_VerifiedMeansAllListed ==
  all_downloaded = "true" => Urls \subseteq UrlsOf(downloaded_pdfs)

\* C9: a keyboard interrupt, wherever it is raised, reaches the
\* 'except KeyboardInterrupt' handler of run: the run stops downloading and OCR.
C9_InterruptReachesHandler == interrupts > 0 => handler = "kbd"

\* C10: at most one browser driver is alive at any time (recovery quits the old
\* one before it creates the new one), and none is alive when run has returned.
C10_DriverQuit ==
  /\ Cardinality(browser.live) <= 1
  /\ pc = "returned" => browser.live = {}

C10_Witness == pc = "returned" /\ browser.created >= 2 /\ handler = "fatal"

(***************************************************************************)
(* 2_consolidate_files_into_single_pdf.py: process_all_months and          *)
(* process_month.  The archive is the environment: what a folder holds and *)
(* how the conversion of an attachment ends is chosen when it is reached.  *)
(***************************************************************************)
\* What process_month finds in an email folder.
FolderKinds == {"no_json", "no_pdf", "unreadable_email_pdf", "ok"}

\* How one attachment fares: larger than MAX_EMBED_SIZE_MB ("large");
\* convert_attachment_to_pdf returns pages that are added ("converted"), raises
\* ConversionError ("conversion_error"), returns nothing ("returned_none"), raises
\* another exception ("unexpected_error"); a returned page cannot be read ("page_error").
AttachmentOutcomes ==
  {"large", "converted", "conversion_error", "returned_none", "unexpected_error",
   "page_error"}

\* The outcomes after which writer.add_attachment embeds the original file.
Embeds(outcome) == outcome \in {"large", "converted"}

AfterConversionErrorSkipItem(where) ==
  IF where = "attachment" THEN "attachments" ELSE "folders"

\* ConversionError leaves process_month ('Re-raise to stop processing') and
\* reaches 'except ConversionError' of process_all_months: sys.exit(1).
AfterConversionError(where) == "exited"

\* The types of attachment told apart: those of OFFICE_TYPES, XPS and Visio, which
\* only LibreOffice converts, and the others.
AttachmentTypes == { "office", "other" }

\* How an attachment of a type may fare.  Without LibreOffice,
\* convert_office_with_libreoffice raises ConversionError("LibreOffice not found")
\* for every attachment it is asked to convert.
AttachmentOutcomesOf(type, lo) ==
  IF type = "office" /\ ~lo THEN { "large", "conversion_error" } ELSE AttachmentOutcomes

NoAttachmentAdded(emb, a) == emb

\* writer.add_attachment(filename=att_file, data=f.read())
add_attachment(emb, a) == [emb EXCEPT ![a] = @ + 1]

InitMail ==
  /\ pc = "idle"
  /\ max_documents = 0
  /\ tracking_file = NoFile
  /\ results_file = NoFile
  /\ FBIConstructed
  /\ MailNotStarted("start")
  /\ CompressNotStarted
  /\ RepairNotStarted
  /\ NoCall
  /\ LateNotStarted

\* process_all_months: the dependency check before the month folders are listed.
DependencyCheck ==
  /\ m_pc = "start"
  /\ soffice' \in BOOLEAN
  /\ m_pc' = "months"
  /\ UNCHANGED << mpath, n_folders, folder_i, n_attachments, att_i, embedded,
                  consolidated, pdf_written, json_written, failed_at, att_seen >>
  /\ UNCHANGED notMail

\* process_all_months: 'for mpath in month_folders: process_month(...)', up to the
\* listing of the email folders ('if not email_folders: return').
MonthLoop ==
  /\ m_pc = "months"
  /\ IF mpath >= NumMonths
     THEN /\ m_pc' = "complete"
          /\ UNCHANGED << mpath, n_folders >>
     ELSE /\ mpath' = mpath + 1
          /\ \E n \in 0..MaxEmails :
               /\ n_folders' = n
               /\ m_pc' = IF n = 0 THEN "months" ELSE "folders"
  /\ folder_i' = 0
  /\ consolidated' = {}
  /\ UNCHANGED << n_attachments, att_i, embedded, pdf_written, json_written, soffice,
                  failed_at, att_seen >>
  /\ UNCHANGED notMail

\* process_month: one round of 'for folder_path in email_folders' up to the
\* attachment loop, or, after the last folder, the consolidated JSON and the return.
FolderLoop ==
  /\ m_pc = "folders"
  /\ IF folder_i >= n_folders
     THEN /\ json_written' = IF consolidated # {}
                             THEN json_written \cup {mpath} ELSE json_written
          /\ m_pc' = "months"
          /\ UNCHANGED << folder_i, n_attachments, att_i, embedded, failed_at, att_seen >>
     ELSE /\ folder_i' = folder_i + 1
          /\ att_i' = 0
          /\ embedded' = NoEmbedded
          /\ att_seen' = NoneSeen
          /\ UNCHANGED json_written
          /\ \E kind \in FolderKinds :
               CASE kind \in {"no_json", "no_pdf"} ->
                      /\ m_pc' = "folders"
                      /\ UNCHANGED << n_attachments, failed_at >>
                 [] kind = "unreadable_email_pdf" ->
                      /\ failed_at' = << mpath, folder_i', 0 >>
                      /\ m_pc' = AfterConversionError("email")
                      /\ UNCHANGED n_attachments
                 [] OTHER ->
                      /\ \E n \in 0..MaxAttachments :
                           /\ n_attachments' = n
                           /\ m_pc' = IF n = 0 THEN "save_pdf" ELSE "attachments"
                      /\ UNCHANGED failed_at
  /\ UNCHANGED << mpath, n_folders, consolidated, pdf_written, soffice >>
  /\ UNCHANGED notMail

\* process_month: one round of 'for att_file in attachments'.
AttachmentLoop ==
  /\ m_pc = "attachments"
  /\ IF att_i >= n_attachments
     THEN /\ m_pc' = "save_pdf"
          /\ UNCHANGED << att_i, embedded, failed_at, att_seen >>
     ELSE /\ att_i' = att_i + 1
          /\ \E type \in AttachmentTypes :
              \E outcome \in AttachmentOutcomesOf(type, soffice) :
               /\ att_seen' = [att_seen EXCEPT ![att_i'] =
                                  [type |-> type, outcome |-> outcome]]
               /\ IF Embeds(outcome)
                  THEN /\ embedded' = add_attachment(embedded, att_i')
                       /\ m_pc' = "attachments"
                       /\ UNCHANGED failed_at
                  ELSE /\ failed_at' = << mpath, folder_i, att_i' >>
                       /\ m_pc' = AfterConversionError("attachment")
                       /\ UNCHANGED embedded
  /\ UNCHANGED << mpath, n_folders, folder_i, n_attachments, consolidated, pdf_written,
                  json_written, soffice >>
  /\ UNCHANGED notMail

\* process_month: 'writer.write(f)' and 'consolidated.append(meta)'.
SavePdf ==
  /\ m_pc = "save_pdf"
  /\ pdf_written' = pdf_written \cup { << mpath, folder_i >> }
  /\ consolidated' = consolidated \cup { folder_i }
  /\ m_pc' = "folders"
  /\ UNCHANGED << mpath, n_folders, folder_i, n_attachments, att_i, embedded,
                  json_written, soffice, failed_at, att_seen >>
  /\ UNCHANGED notMail

NextMail == DependencyCheck \/ MonthLoop \/ FolderLoop \/ AttachmentLoop \/ SavePdf

SpecMail == InitMail /\ [][NextMail]_vars

(***************************************************************************)
(* Properties of process_all_months                                        *)
(***************************************************************************)
\* Email folder p = <<month, folder>> comes before position q in the order of
\* processing.
Before(p, q) == p[1] < q[1] \/ (p[1] = q[1] /\ p[2] < q[2])

C15_OfficeEmbeddedOnly ==
  ~soffice =>
    \A a \in 1..MaxAttachments :
      att_seen[a].type = "office" =>
        (embedded[a] = 1 /\ failed_at # << mpath, folder_i, a >>)

\* C16: for every email whose _complete.pdf is written, every attachment of the
\* email has been embedded as its original file exactly once, whether it was
\* converted or was larger than MAX_EMBED_SIZE_MB.
C16_EmbeddedExactlyOnce ==
  m_pc = "save_pdf" =>
    \A a \in 1..MaxAttachments :
      IF a <= n_attachments
      THEN embedded[a] = 1 /\ att_seen[a].outcome \in { "large", "converted" }
      ELSE embedded[a] = 0

C16_Witness ==
  /\ m_pc = "save_pdf"
  /\ n_attachments = 2
  /\ att_seen[1].outcome = "large"
  /\ att_seen[2].outcome = "converted"

(***************************************************************************)
(* 4_pdf_compress.py: main.  The source tree, what an earlier run left     *)
(* under dst, the order in which rglob lists the files and what            *)
(* Ghostscript does with each file are the environment.                    *)
(***************************************************************************)
ALWAYS_KEEP_SMALLEST == TRUE

Sizes == 1..MaxSize

\* The scraper before run is called.
FBINotStarted ==
  /\ pc = "idle"
  /\ max_documents = 0
  /\ tracking_file = NoFile
  /\ results_file = NoFile
  /\ FBIConstructed

\* A file under dst: its size, the source PDF it was made of and what made it:
\* Ghostscript ("gs"), shutil.copy2 ("copy2") or an earlier run ("earlier").
Pdf(size, of, by) == [size |-> size, of |-> of, by |-> by]

\* The orders in which a directory scan may list the files in S.
RECURSIVE Listings(_)
Listings(S) ==
  IF S = {} THEN { << >> }
  ELSE UNION { { << n >> \o l : l \in Listings(S \ {n}) } : n \in S }

\* list(src.rglob("*.pdf")) + list(src.rglob("*.PDF")): where file names match
\* without regard to case both patterns list every PDF, elsewhere the second
\* lists none of these (their names are in lower case).
RglobTwice(files) ==
  { l1 \o l2 : l1 \in Listings(files), l2 \in Listings(files) \cup { << >> } }

\* compress_with_ghostscript(pdf_path, temp_path, ...): its return value and the
\* size of what Ghostscript wrote to temp_path (0: it wrote no file).  A failed
\* or timed-out process may leave a partial file; without an executable nothing
\* is run.
GhostscriptOutcomes(gs) ==
  IF gs THEN [success : BOOLEAN, wrote : 0..MaxSize]
  ELSE { [success |-> FALSE, wrote |-> 0] }

GhostscriptMissingContinues(gs) == FALSE

\* 'gs_exe = find_ghostscript(); if not gs_exe: ... return'
GhostscriptMissingAborts(gs) == ~gs

KeepsCompressedAlways(compressed_size, original_size) == TRUE

\* 'if compressed_size < original_size or not ALWAYS_KEEP_SMALLEST'
KeepsCompressed(compressed_size, original_size) ==
  compressed_size < original_size \/ ~ALWAYS_KEEP_SMALLEST

\* shutil.move(temp_path, output_path)
Move(d, from, to) == [d EXCEPT ![to] = d[from], ![from] = NoPdf]

\* shutil.copy2(pdf_path, output_path)
Copy2(d, name, to) == [d EXCEPT ![to] = Pdf(src_pdfs[name], name, "copy2")]

\* 'if temp_path.exists(): temp_path.unlink()'
UnlinkIfExists(d, path) == [d EXCEPT ![path] = NoPdf]

\* The round of the loop from 'if success and temp_path.exists()' on, with the
\* files d under dst after Ghostscript ran.
StoreOutput(d, name, gs_ok) ==
  LET output_path == name
      temp_path == WithSuffix(name)
  IN IF gs_ok /\ d[temp_path] # NoPdf
     THEN IF KeepsCompressed(d[temp_path].size, src_pdfs[name])
          THEN Move(d, temp_path, output_path)
          ELSE UnlinkIfExists(Copy2(d, name, output_path), temp_path)
     ELSE UnlinkIfExists(Copy2(d, name, output_path), temp_path)

\* What an earlier run may have left under dst: outputs for some of the PDFs.
EarlierOutputs ==
  { [p \in DstPaths |-> IF p \in S THEN Pdf(1, p, "earlier") ELSE NoPdf] :
      S \in SUBSET PdfNames }

InitCompress ==
  /\ c_pc = "start"
  /\ src_exists \in BOOLEAN
  /\ gs_exe \in BOOLEAN
  /\ src_pdfs \in [PdfNames -> 0..MaxSize]
  /\ src_exists = FALSE => src_pdfs = [n \in PdfNames |-> 0]
  /\ dst_made = FALSE
  /\ dst_pdfs \in EarlierOutputs
  /\ dst_at_start = dst_pdfs
  /\ all_pdfs = << >>
  /\ pdf_i = 0
  /\ handled = {}
  /\ FBINotStarted
  /\ MailNotStarted("idle")
  /\ RepairNotStarted
  /\ NoCall
  /\ LateNotStarted

\* main up to the loop: the two early returns, ensure_directory_exists(dst), the
\* listing of the PDFs and 'if not all_pdfs: return'.
CompressMain ==
  /\ c_pc = "start"
  /\ IF ~src_exists
     THEN /\ c_pc' = "returned_no_src"
          /\ UNCHANGED << dst_made, all_pdfs >>
     ELSE IF GhostscriptMissingAborts(gs_exe)
     THEN /\ c_pc' = "returned_no_gs"
          /\ UNCHANGED << dst_made, all_pdfs >>
     ELSE /\ dst_made' = TRUE
          /\ all_pdfs' \in RglobTwice({ n \in PdfNames : src_pdfs[n] > 0 })
          /\ c_pc' = IF all_pdfs' = << >> THEN "returned_no_pdfs" ELSE "loop"
  /\ UNCHANGED << src_exists, gs_exe, src_pdfs, dst_pdfs, dst_at_start, pdf_i, handled >>
  /\ UNCHANGED notCompress

\* One round of 'for i, pdf_path in enumerate(all_pdfs, 1)'.
CompressFile ==
  /\ c_pc = "loop"
  /\ pdf_i < Len(all_pdfs)
  /\ pdf_i' = pdf_i + 1
  /\ LET pdf_path == all_pdfs[pdf_i']
         temp_path == WithSuffix(pdf_path)
     IN IF dst_pdfs[pdf_path] # NoPdf
        THEN UNCHANGED << dst_pdfs, handled >>
        ELSE /\ handled' = handled \cup { pdf_path }
             /\ \E r \in GhostscriptOutcomes(gs_exe) :
                  LET d == IF r.wrote > 0
                           THEN [dst_pdfs EXCEPT ![temp_path] = Pdf(r.wrote, pdf_path, "gs")]
                           ELSE dst_pdfs
                  IN dst_pdfs' = StoreOutput(d, pdf_path, r.success)
  /\ UNCHANGED << c_pc, src_exists, gs_exe, src_pdfs, dst_made, dst_at_start, all_pdfs >>
  /\ UNCHANGED notCompress

\* The loop is over: the summary is printed and main returns.
CompressSummary ==
  /\ c_pc = "loop"
  /\ pdf_i = Len(all_pdfs)
  /\ c_pc' = "done"
  /\ UNCHANGED << src_exists, gs_exe, src_pdfs, dst_made, dst_pdfs, dst_at_start,
                  all_pdfs, pdf_i, handled >>
  /\ UNCHANGED notCompress

NextCompress == CompressMain \/ CompressFile \/ CompressSummary

SpecCompress == InitCompress /\ [][NextCompress]_vars

(***************************************************************************)
(* Properties of 4_pdf_compress.py                                         *)
(***************************************************************************)
\* C11: when Ghostscript is not found at startup main aborts: it returns before the
\* destination directory is created, no round of the loop runs and no file under
\* dst is written, copied or removed.
C11_NoGhostscriptAborts ==
  (~gs_exe /\ src_exists /\ c_pc # "start") =>
    /\ c_pc = "returned_no_gs"
    /\ ~dst_made
    /\ all_pdfs = << >> /\ pdf_i = 0 /\ handled = {}
    /\ dst_pdfs = dst_at_start

C11_Witness ==
  /\ c_pc = "returned_no_gs"
  /\ ~gs_exe /\ src_exists
  /\ \E n \in PdfNames : src_pdfs[n] > 0 /\ dst_pdfs[n] = NoPdf

\* C12: for every PDF handled in this run (its output was not present when its
\* round began), the file at its output path is never larger than the source: it
\* is strictly smaller than the source, or it is the unchanged copy of the source.
C12_NeverLargerThanSource ==
  \A n \in handled :
    dst_pdfs[n] # NoPdf =>
      \/ dst_pdfs[n].size < src_pdfs[n]
      \/ dst_pdfs[n] = Pdf(src_pdfs[n], n, "copy2")

\* main has finished: one PDF handled in this run is left as the smaller output of
\* Ghostscript, another as the copy of its source.
C12_Witness ==
  /\ c_pc = "done"
  /\ \E n \in handled : dst_pdfs[n].by = "gs" /\ dst_pdfs[n].size < src_pdfs[n]
  /\ \E n \in handled : dst_pdfs[n].by = "copy2" /\ src_pdfs[n] < MaxSize

\* C19 as stated: after main has finished with Ghostscript available, every source
\* PDF has an output file at the same relative path under dst.
C19_EveryPdfHasOutput ==
  (c_pc = "done" /\ gs_exe) =>
    \A n \in PdfNames : src_pdfs[n] > 0 => dst_pdfs[n] # NoPdf

(***************************************************************************)
(* 3_pdf_repair.py: main.  What each fix method returns and what it leaves *)
(* at the output path are the environment.                                 *)
(***************************************************************************)
\* 'output_path.stat().st_size > 1024'
MinBytes == 1024

\* fix_methods, in the order of the list.
fix_methods == << "PyMuPDF", "pikepdf", "PyPDF2" >>

\* The sizes an output file is told apart by (0: there is no file).
OutSizes == { 0, MinBytes, MinBytes + 1 }

\* 'output_path.exists() and output_path.stat().st_size > 1024'
LargeEnough(size) == size > MinBytes

\* fix_method(input_path, output_path): True once the method has written the
\* output file, of whatever size; False after an exception, which may leave the
\* output path as it was or a file behind.
FixOutcomes(before) ==
  { [ok |-> TRUE, size |-> sz] : sz \in OutSizes \ {0} }
    \cup { [ok |-> FALSE, size |-> sz] : sz \in OutSizes \cup {before} }

ChainGoesOn(ok) == FALSE

\* 'if fix_method(input_path, output_path): success = True; ...; break'
ChainEnds(ok) == ok

InitRepair ==
  /\ r_pc = "files"
  /\ pdfs_to_process \in 0..MaxPdfs
  /\ r_i = 0
  /\ method_i = 0
  /\ success = FALSE
  /\ method_used = ""
  /\ out_size \in [1..MaxPdfs -> { sz \in OutSizes : ~LargeEnough(sz) }]
  /\ \A f \in 1..MaxPdfs : f > pdfs_to_process => out_size[f] = 0
  /\ processed_pdfs = {}
  /\ failed_files = {}
  /\ tried = [f \in 1..MaxPdfs |-> << >>]
  /\ FBINotStarted
  /\ MailNotStarted("idle")
  /\ CompressNotStarted
  /\ NoCall
  /\ LateNotStarted

\* 'for i, (input_path, output_path, rel_path) in enumerate(pdfs_to_process, 1)'
\* up to the loop over fix_methods, or, after the last PDF, the final summary.
RepairFile ==
  /\ r_pc = "files"
  /\ IF r_i >= pdfs_to_process
     THEN /\ r_pc' = "done"
          /\ UNCHANGED r_i
     ELSE /\ r_i' = r_i + 1
          /\ r_pc' = "methods"
  /\ method_i' = 0
  /\ success' = FALSE
  /\ method_used' = ""
  /\ UNCHANGED << pdfs_to_process, out_size, processed_pdfs, failed_files, tried >>
  /\ UNCHANGED notRepair

\* One round of 'for method_name, fix_method in fix_methods'.
RepairTry ==
  /\ r_pc = "methods"
  /\ method_i < Len(fix_methods)
  /\ method_i' = method_i + 1
  /\ \E r \in FixOutcomes(out_size[r_i]) :
       /\ out_size' = [out_size EXCEPT ![r_i] = r.size]
       /\ tried' = [tried EXCEPT ![r_i] =
                      Append(@, [method |-> fix_methods[method_i'], ok |-> r.ok])]
       /\ success' = (success \/ r.ok)
       /\ method_used' = IF r.ok THEN fix_methods[method_i'] ELSE method_used
       /\ r_pc' = IF ChainEnds(r.ok) THEN "verdict" ELSE "methods"
  /\ UNCHANGED << pdfs_to_process, r_i, processed_pdfs, failed_files >>
  /\ UNCHANGED notRepair

\* fix_methods is exhausted without a success.
RepairExhausted ==
  /\ r_pc = "methods"
  /\ method_i = Len(fix_methods)
  /\ r_pc' = "verdict"
  /\ UNCHANGED << pdfs_to_process, r_i, method_i, success, method_used, out_size,
                  processed_pdfs, failed_files, tried >>
  /\ UNCHANGED notRepair

\* 'if success and output_path.exists() and output_path.stat().st_size > 1024:
\* processed_count += 1 ... else: failed_files.append(rel_path)'
RepairVerdict ==
  /\ r_pc = "verdict"
  /\ IF success /\ LargeEnough(out_size[r_i])
     THEN /\ processed_pdfs' = processed_pdfs \cup { r_i }
          /\ UNCHANGED failed_files
     ELSE /\ failed_files' = failed_files \cup { r_i }
          /\ UNCHANGED processed_pdfs
  /\ r_pc' = "files"
  /\ UNCHANGED << pdfs_to_process, r_i, method_i, success, method_used, out_size, tried >>
  /\ UNCHANGED notRepair

NextRepair == RepairFile \/ RepairTry \/ RepairExhausted \/ RepairVerdict

SpecRepair == InitRepair /\ [][NextRepair]_vars

(***************************************************************************)
(* Properties of 3_pdf_repair.py                                           *)
(***************************************************************************)
\* C13: for every PDF the fix methods are called in the order PyMuPDF, pikepdf,
\* PyPDF2; a method is called only after every earlier one has failed, so the first
\* success ends the chain; the chain does not stop before a success or the end of
\* the list; and a PDF is reported failed only if all three methods failed or its
\* output is not larger than 1024 bytes.
C13_FallbackChain ==
  \A f \in 1..MaxPdfs :
    /\ Len(tried[f]) <= Len(fix_methods)
    /\ \A k \in 1..Len(tried[f]) :
         /\ tried[f][k].method = fix_methods[k]
         /\ k < Len(tried[f]) => ~tried[f][k].ok
    /\ f \in processed_pdfs \cup failed_files =>
         /\ tried[f] # << >>
         /\ tried[f][Len(tried[f])].ok \/ Len(tried[f]) = Len(fix_methods)
    /\ f \in failed_files =>
         \/ Len(tried[f]) = Len(fix_methods) /\ \A k \in 1..Len(tried[f]) : ~tried[f][k].ok
         \/ out_size[f] <= 1024
    /\ f \in processed_pdfs =>
         /\ tried[f][Len(tried[f])].ok
         /\ out_size[f] > 1024

\* One PDF was repaired by the third method after two failures, another was
\* reported failed although its first method succeeded (the output is too small).
C13_Witness ==
  /\ r_pc = "done"
  /\ \E f \in processed_pdfs : Len(tried[f]) = 3
  /\ \E f \in failed_files : Len(tried[f]) = 1 /\ tried[f][1].ok

(***************************************************************************)
(* Functions of the mail scripts, each applied to one input:               *)
(* sanitize_filename of 1_files_from_mbox.py, convert_pdf_to_pdf_pages and *)
(* convert_attachment_to_pdf of 2_consolidate_files_into_single_pdf.py.    *)
(***************************************************************************)
\* 'if len(filename) > 100' and 'name[:95]'
MaxNameLen == 100
KeptNameLen == 95

\* File names are sequences of characters.  "<" stands for the characters of
\* [<>:"/\\|?*], "ctl" for a control character, "a" for any other character.
Chars == { "a", "<", "ctl", "_", " ", "." }

Str7 == << "u", "n", "n", "a", "m", "e", "d" >>   \* "unnamed"

\* re.sub(r'[<>:"/\\|?*]', '_', filename)
ReplaceInvalid(s) == [i \in 1..Len(s) |-> IF s[i] = "<" THEN "_" ELSE s[i]]

\* re.sub(r'[\x00-\x1f\x7f]', '', filename)
RemoveControl(s) == SelectSeq(s, LAMBDA c : c # "ctl")

\* re.sub(r'_+', '_', filename)
CollapseUnderscores(s) ==
  LET with_previous == [i \in 1..Len(s) |-> << s[i], IF i = 1 THEN "" ELSE s[i - 1] >>]
      kept == SelectSeq(with_previous, LAMBDA c : ~(c[1] = "_" /\ c[2] = "_"))
  IN [i \in 1..Len(kept) |-> kept[i][1]]

\* filename.strip(' .')
RECURSIVE Strip(_)
Strip(s) ==
  IF s = << >> THEN s
  ELSE IF Head(s) \in { " ", "." } THEN Strip(Tail(s))
  ELSE IF s[Len(s)] \in { " ", "." } THEN Strip(SubSeq(s, 1, Len(s) - 1))
  ELSE s

\* os.path.splitext: the extension starts at the last dot, unless only dots
\* come before it.
SplitExt(s) ==
  LET dots == { i \in 1..Len(s) : s[i] = "." }
      d == CHOOSE i \in dots : \A j \in dots : j <= i
  IN IF dots # {} /\ \E j \in 1..(d - 1) : s[j] # "."
     THEN << SubSeq(s, 1, d - 1), SubSeq(s, d, Len(s)) >>
     ELSE << s, << >> >>

\* str.upper on the letters used here.
Upper(s) ==
  [i \in 1..Len(s) |->
     CASE s[i] = "a" -> "A" [] s[i] = "n" -> "N" [] s[i] = "u" -> "U"
       [] s[i] = "l" -> "L" [] OTHER -> s[i]]

reserved ==
  { << "C", "O", "N" >>, << "P", "R", "N" >>, << "A", "U", "X" >>, << "N", "U", "L" >> }
    \cup { << "C", "O", "M", d >> : d \in { "1", "2", "3", "4", "5", "6", "7", "8", "9" } }
    \cup { << "L", "P", "T", d >> : d \in { "1", "2", "3", "4", "5", "6", "7", "8", "9" } }

sanitize_filename(filename) ==
  IF filename = << >> THEN Str7
  ELSE LET stripped == Strip(CollapseUnderscores(RemoveControl(ReplaceInvalid(filename))))
           named == IF stripped = << >> THEN Str7 ELSE stripped
           safe == IF Upper(SplitExt(named)[1]) \in reserved
                   THEN << "_" >> \o named ELSE named
       IN IF Len(safe) > MaxNameLen
          THEN SubSeq(SplitExt(safe)[1], 1, KeptNameLen) \o << ".", ".", "." >>
                 \o SplitExt(safe)[2]
          ELSE safe

\* The file names sanitize_filename is applied to: at most one character, a run
\* of letters (none, or enough for the length limit to matter) and at most
\* MaxAffix more characters; and names that are reserved on Windows.
RECURSIVE Short(_)
Short(k) ==
  IF k = 0 THEN { << >> }
  ELSE Short(k - 1) \cup { Append(t, c) : t \in Short(k - 1), c \in Chars }

FileNames ==
  { p \o [i \in 1..m |-> "a"] \o t :
      p \in Short(1), m \in { 0, KeptNameLen, MaxNameLen }, t \in Short(MaxAffix) }
    \cup { << "n", "u", "l" >>, << "N", "U", "L", ".", "a" >>, << "n", "u", "l", "l" >> }

\* LARGE_PDF_THRESHOLD
LARGE_PDF_THRESHOLD == 100

\* What a converter hands back: a list of paths, None, or ConversionError.
Returned(paths) == [kind |-> "returned", value |-> paths]
ReturnedNone == [kind |-> "returned_none"]
Raised == [kind |-> "raised", error |-> "ConversionError"]

\* The i-th path of one kind that a converter creates; the attachment itself is
\* Path("original", 0).
Path(kind, i) == << kind, i >>

\* One single-page PDF per page, in page order.
PagePaths(kind, n) == [i \in 1..n |-> Path(kind, i)]

\* A PDF as convert_pdf_to_pdf_pages sees it: whether PdfReader(strict=True) and
\* the page loop get through, whether PdfReader(strict=False) does, the number of
\* pages, the pages that cannot be written in the forgiving loop, what the
\* LibreOffice import leaves ("none": no LibreOffice, no output, a timeout or an
\* output without pages; "large"; "split": one page; "unsplittable") and whether
\* the binary text extraction yields a PDF.
PdfFiles ==
  [strict : BOOLEAN, lenient : BOOLEAN,
   pages : 0..MaxPages \cup { LARGE_PDF_THRESHOLD, LARGE_PDF_THRESHOLD + 1 },
   bad : SUBSET { 1 },
   repair : { "none", "large", "split", "unsplittable" },
   text : BOOLEAN]

convert_pdf_to_pdf_pages(pdf) ==
  LET last_resorts ==
        CASE pdf.repair \in { "large", "unsplittable" } -> Returned(<< Path("repaired", 0) >>)
          [] pdf.repair = "split" -> Returned(PagePaths("repaired_page", 1))
          [] OTHER -> IF pdf.text THEN Returned(<< Path("extracted_text", 0) >>)
                      ELSE Raised
      page_paths == SelectSeq(PagePaths("page", pdf.pages), LAMBDA q : q[2] \notin pdf.bad)
  IN IF pdf.strict
     THEN IF pdf.pages > LARGE_PDF_THRESHOLD
          THEN Returned(<< Path("original", 0) >>)
          ELSE Returned(PagePaths("page", pdf.pages))
     ELSE IF pdf.lenient
     THEN IF pdf.pages > LARGE_PDF_THRESHOLD
          THEN Returned(<< Path("original", 0) >>)
          ELSE IF page_paths # << >> THEN Returned(page_paths) ELSE last_resorts
     ELSE last_resorts

\* An attachment as convert_attachment_to_pdf sees it: the kind of its extension,
\* what the converter of that kind does ("pages": it returns [out]; for a file
\* without extension: one of the formats tried gives a result), what LibreOffice or
\* pdflatex does ("missing": not installed, "failed": no PDF, "pdf"), what
\* handle_unconvertible_file returns and the PDF that is split, if one is.
ExtKinds ==
  { "none", "pdf", "xps_visio", "image", "calendar", "tex", "text", "html", "office",
    "unconvertible", "unknown" }

Attachments ==
  [ext : ExtKinds, conv : { "pages", "raises" }, lo : { "missing", "failed", "pdf" },
   summary : { "pages", "none" }, pdf : PdfFiles]

\* handle_unconvertible_file
handle_unconvertible_file(att) ==
  IF att.summary = "pages" THEN Returned(<< Path("summary", 0) >>) ELSE ReturnedNone

SummaryUnguarded(summary, otherwise) == summary

\* 'summary = handle_unconvertible_file(...); if summary: return summary',
\* followed by a raise.
SummaryOr(summary, otherwise) ==
  IF summary = ReturnedNone THEN otherwise ELSE summary

\* convert_image_to_pdf_pages, convert_text_to_pdf_pages, convert_html_to_pdf_pages,
\* convert_calendar_to_pdf_pages: [out] or ConversionError.
SimpleConverter(att) ==
  IF att.conv = "pages" THEN Returned(<< Path("converted", 0) >>) ELSE Raised

convert_attachment_to_pdf(att) ==
  CASE att.ext = "pdf" -> convert_pdf_to_pdf_pages(att.pdf)
    [] att.ext = "xps_visio" ->
         CASE att.lo = "missing" -> Raised
           [] att.lo = "pdf" -> convert_pdf_to_pdf_pages(att.pdf)
           [] OTHER -> SummaryOr(handle_unconvertible_file(att), Raised)
    [] att.ext \in { "image", "calendar", "text", "html" } -> SimpleConverter(att)
    [] att.ext = "tex" ->
         IF att.lo = "pdf" /\ convert_pdf_to_pdf_pages(att.pdf) # Raised
         THEN convert_pdf_to_pdf_pages(att.pdf)
         ELSE SimpleConverter(att)
    [] att.ext = "office" ->
         IF att.lo = "pdf" THEN convert_pdf_to_pdf_pages(att.pdf) ELSE Raised
    [] att.ext = "none" ->
         IF att.conv = "pages" THEN Returned(<< Path("converted", 0) >>)
         ELSE SummaryOr(handle_unconvertible_file(att), Raised)
    [] att.ext = "unconvertible" -> SummaryOr(handle_unconvertible_file(att), Raised)
    [] OTHER -> Raised

InitFn ==
  /\ f_call \in [fn : { "sanitize_filename" }, arg : FileNames]
                  \cup [fn : { "convert_pdf_to_pdf_pages" }, arg : PdfFiles]
                  \cup [fn : { "convert_attachment_to_pdf" }, arg : Attachments]
  /\ f_ret = [kind |-> "pending"]
  /\ FBINotStarted
  /\ MailNotStarted("idle")
  /\ CompressNotStarted
  /\ RepairNotStarted
  /\ LateNotStarted

CallSanitizeFilename ==
  /\ f_call.fn = "sanitize_filename"
  /\ f_ret.kind = "pending"
  /\ f_ret' = Returned(sanitize_filename(f_call.arg))
  /\ UNCHANGED f_call
  /\ UNCHANGED notFn

CallConvertPdf ==
  /\ f_call.fn = "convert_pdf_to_pdf_pages"
  /\ f_ret.kind = "pending"
  /\ f_ret' = convert_pdf_to_pdf_pages(f_call.arg)
  /\ UNCHANGED f_call
  /\ UNCHANGED notFn

CallConvertAttachment ==
  /\ f_call.fn = "convert_attachment_to_pdf"
  /\ f_ret.kind = "pending"
  /\ f_ret' = convert_attachment_to_pdf(f_call.arg)
  /\ UNCHANGED f_call
  /\ UNCHANGED notFn

NextFn == CallSanitizeFilename \/ CallConvertPdf \/ CallConvertAttachment

SpecFn == InitFn /\ [][NextFn]_vars

(***************************************************************************)
(* Properties of the functions                                             *)
(***************************************************************************)
\* C14 as stated: convert_pdf_to_pdf_pages returns the original path as a
\* one-element list for a PDF of more than LARGE_PDF_THRESHOLD pages and for a PDF
\* that cannot be parsed; otherwise it returns one single-page PDF path per page,
\* in page order.
C14_OriginalOrOnePerPage ==
  (f_call.fn = "convert_pdf_to_pdf_pages" /\ f_ret.kind # "pending") =>
    f_ret = IF f_call.arg.pages > 100 \/ (~f_call.arg.strict /\ ~f_call.arg.lenient)
            THEN Returned(<< Path("original", 0) >>)
            ELSE Returned(PagePaths("page", f_call.arg.pages))

\* C17 as stated: sanitize_filename returns for every input a name that is valid on
\* Windows: not empty, without any of < > : " / \ | ? *, without control
\* characters, and neither beginning nor ending with a space or a dot.
C17_ValidForWindows ==
  (f_call.fn = "sanitize_filename" /\ f_ret.kind # "pending") =>
    LET name == f_ret.value
    IN /\ name # << >>
       /\ \A i \in 1..Len(name) : name[i] \notin { "<", "ctl" }
       /\ name[1] \notin { " ", "." }
       /\ name[Len(name)] \notin { " ", "." }

StableChecks == 3

\* What os.path.getsize can find for a name: no file, or a file of some size.
FileSizes == { Absent } \cup 0..MaxSize

\* 'any(f.endswith(ext) for ext in ['.crdownload', '.tmp', '.part', '.download'])'
IsTemp(f) == f[Len(f)] \in { "crdownload", "tmp", "part", "download" }

\* os.listdir(d): the names of the files that exist.
listdir(d) == { f \in DownloadFiles : d[f] # Absent }

\* 'current_files = [f for f in files if not any(...)]'
CurrentFiles(files) == { f \in files : ~IsTemp(f) }

\* 'os.path.splitext(expected_filename)[0]'
base_name(name) == SubSeq(name, 1, Len(name) - 1)

\* 'base_name in f'
Contains(f, part) ==
  \E i \in 0..(Len(f) - Len(part)) : SubSeq(f, i + 1, i + Len(part)) = part

\* 'matching = [f for f in current_files if base_name in f or
\*  f.lower().endswith('.pdf')]', empty without an expected_filename.
Matching(cur, expected) ==
  IF expected = NoName
  THEN {}
  ELSE { f \in cur : Contains(f, base_name(expected)) \/ f[Len(f)] = "pdf" }

\* os.path.getsize or os.path.getctime of a file that has gone.
RaisedOSError == [kind |-> "raised", error |-> "OSError"]

\* The call on line 659 of download_pdf, or one with the default arguments; the
\* download directory is kept between documents and between runs, so it holds
\* whatever it holds.
InitWait ==
  /\ w_pc = "poll"
  /\ expected_filename \in { NoName, << "y", "pdf" >> }
  /\ w_dir \in [DownloadFiles -> FileSizes]
  /\ w_dir0 = w_dir
  /\ seen_files = {}
  /\ current_files = {}
  /\ new_file = NoName
  /\ size1 = 0
  /\ last_file_count = 0
  /\ stable_count_checks = 0
  /\ w_polls = 0
  /\ w_ret = [kind |-> "pending"]
  /\ FBINotStarted
  /\ MailNotStarted("idle")
  /\ CompressNotStarted
  /\ RepairNotStarted
  /\ NoCall
  /\ MboxNotStarted
  /\ CiaNotStarted
  /\ StateNotStarted

\* Chrome, between two steps of the wait: the partial download appears, grows
\* or goes, and so does the downloaded file.
WaitDirChanges ==
  /\ w_pc \in { "poll", "check_new", "size2", "expected" }
  /\ \E f \in { << "y", "pdf" >>, << "y", "pdf", "crdownload" >> }, sz \in FileSizes :
       /\ sz # w_dir[f]
       /\ w_dir' = [w_dir EXCEPT ![f] = sz]
  /\ UNCHANGED << w_pc, expected_filename, w_dir0, seen_files, current_files, new_file,
                  size1, last_file_count, stable_count_checks, w_polls, w_ret >>
  /\ UNCHANGED notWait

\* 'while time.time() - start_time < timeout' is false: 'return None'.
WaitTimeout ==
  /\ w_pc = "poll"
  /\ w_polls >= MaxPolls
  /\ w_pc' = "returned"
  /\ w_ret' = ReturnedNone
  /\ UNCHANGED << expected_filename, w_dir, w_dir0, seen_files, current_files, new_file,
                  size1, last_file_count, stable_count_checks, w_polls >>
  /\ UNCHANGED notWait

\* One iteration up to 'if new_files': the listing, which may fail ('continue'),
\* the filter and the files not seen before.  new_files[0] is the first of them
\* in the order of os.listdir, which is arbitrary.
WaitPoll ==
  /\ w_pc = "poll"
  /\ w_polls < MaxPolls
  /\ w_polls' = w_polls + 1
  /\ \/ UNCHANGED << w_pc, current_files, seen_files, new_file >>
     \/ LET cur == CurrentFiles(listdir(w_dir))
            new_files == cur \ seen_files
        IN  /\ current_files' = cur
            /\ IF new_files # {}
               THEN /\ seen_files' = seen_files \cup new_files
                    /\ new_file' \in new_files
                    /\ w_pc' = "check_new"
               ELSE /\ w_pc' = "expected"
                    /\ UNCHANGED << seen_files, new_file >>
  /\ UNCHANGED << expected_filename, w_dir, w_dir0, size1, last_file_count,
                  stable_count_checks, w_ret >>
  /\ UNCHANGED notWait

\* After 'time.sleep(3)': 'if os.path.exists(file_path): size1 = ...'.
WaitFirstSize ==
  /\ w_pc = "check_new"
  /\ IF w_dir[new_file] # Absent
     THEN /\ size1' = w_dir[new_file]
          /\ w_pc' = "size2"
     ELSE /\ w_pc' = "expected"
          /\ UNCHANGED size1
  /\ UNCHANGED << expected_filename, w_dir, w_dir0, seen_files, current_files, new_file,
                  last_file_count, stable_count_checks, w_polls, w_ret >>
  /\ UNCHANGED notWait

\* After 'time.sleep(2)': 'size2 = os.path.getsize(file_path)', which nothing
\* catches, and 'if size1 == size2 and size1 > 0: return file_path'.
WaitSecondSize ==
  /\ w_pc = "size2"
  /\ LET size2 == w_dir[new_file]
     IN  IF size2 = Absent
         THEN w_pc' = "returned" /\ w_ret' = RaisedOSError
         ELSE IF size1 = size2 /\ size1 > 0
              THEN w_pc' = "returned" /\ w_ret' = Returned(new_file)
              ELSE w_pc' = "expected" /\ UNCHANGED w_ret
  /\ UNCHANGED << expected_filename, w_dir, w_dir0, seen_files, current_files, new_file,
                  size1, last_file_count, stable_count_checks, w_polls >>
  /\ UNCHANGED notWait

\* Lines 585-600: the count of current_files against the last count, and after
\* StableChecks equal counts the latest file, if it is not empty; an error of
\* getctime or getsize is passed over.  Which file is the latest is not known.
WaitStableCount ==
  LET count == Cardinality(current_files)
      checks == IF count = last_file_count THEN stable_count_checks + 1 ELSE 0
  IN  IF count > 0
      THEN /\ stable_count_checks' = checks
           /\ last_file_count' = count
           /\ \/ /\ checks >= StableChecks
                 /\ \A f \in current_files : w_dir[f] # Absent
                 /\ \E latest_file \in current_files :
                      IF w_dir[latest_file] > 0
                      THEN w_pc' = "returned" /\ w_ret' = Returned(latest_file)
                      ELSE w_pc' = "poll" /\ UNCHANGED w_ret
              \/ /\ \/ checks < StableChecks
                    \/ \E f \in current_files : w_dir[f] = Absent
                 /\ w_pc' = "poll"
                 /\ UNCHANGED w_ret
      ELSE /\ w_pc' = "poll"
           /\ UNCHANGED << stable_count_checks, last_file_count, w_ret >>

\* Lines 575-600: the file matching[0], first in the arbitrary order of the
\* listing, is returned if it is not empty; its getsize is not caught.  Then the
\* check of the file count.
WaitExpected ==
  /\ w_pc = "expected"
  /\ LET matching == Matching(current_files, expected_filename)
     IN  IF matching # {}
         THEN \E m \in matching :
                IF w_dir[m] = Absent
                THEN /\ w_pc' = "returned" /\ w_ret' = RaisedOSError
                     /\ UNCHANGED << stable_count_checks, last_file_count >>
                ELSE IF w_dir[m] > 0
                     THEN /\ w_pc' = "returned" /\ w_ret' = Returned(m)
                          /\ UNCHANGED << stable_count_checks, last_file_count >>
                     ELSE WaitStableCount
         ELSE WaitStableCount
  /\ UNCHANGED << expected_filename, w_dir, w_dir0, seen_files, current_files, new_file,
                  size1, w_polls >>
  /\ UNCHANGED notWait

NextWait ==
  \/ WaitDirChanges
  \/ WaitTimeout
  \/ WaitPoll
  \/ WaitFirstSize
  \/ WaitSecondSize
  \/ WaitExpected

SpecWait == InitWait /\ [][NextWait]_vars

\* C21: a path that wait_for_download_with_monitoring returns is the path of a
\* file that was not in the download directory when the wait began, that is
\* not a temporary download file, and whose size is greater than zero.
C21_ReturnsNewCompleteFile ==
  w_ret.kind = "returned" =>
    /\ w_dir0[w_ret.value] = Absent
    /\ ~IsTemp(w_ret.value)
    /\ w_dir[w_ret.value] > 0

(***************************************************************************)
(* gmail_backup_and_clean/1_files_from_mbox.py: process_mbox               *)
(***************************************************************************)

\* How the try block of one message can end: at 'processed += 1', or with an
\* exception of one of its calls: parse_email_date and the folder name,
\* os.makedirs, create_email_pdf, the writing of an attachment, json.dump.
TryOutcomes == { "ok", "date", "makedirs", "email_pdf", "attachment", "json" }

\* Where the for loop is after the except clause has handled the exception of
\* one message, if it handed the loop over after the first exception.
AfterExceptionStop == "done"

\* Where the for loop is after the except clause: at its next iteration.
AfterException == "loop"

\* The messages whose iterations ended in one way.
Ended(ok) ==
  { m \in 1..MaxMessages :
      \E j \in 1..Len(msg_outcome[m]) : (msg_outcome[m][j] = "ok") = ok }

\* process_mbox(mbox_path, output_dir) on an mbox of some number of messages.
InitMbox ==
  /\ b_pc = "loop"
  /\ n_messages \in 0..MaxMessages
  /\ msg_key = 0
  /\ mbox_processed = 0
  /\ error_count = 0
  /\ msg_outcome = [m \in 1..MaxMessages |-> << >>]
  /\ FBINotStarted
  /\ MailNotStarted("idle")
  /\ CompressNotStarted
  /\ RepairNotStarted
  /\ NoCall
  /\ WaitNotStarted
  /\ CiaNotStarted
  /\ StateNotStarted

\* 'for key, message in mbox.items()': the next message and its try block, up
\* to 'processed += 1' or to the exception.
MboxMessage ==
  /\ b_pc = "loop"
  /\ msg_key < n_messages
  /\ msg_key' = msg_key + 1
  /\ \E o \in TryOutcomes :
       /\ msg_outcome' = [msg_outcome EXCEPT ![msg_key + 1] = Append(@, o)]
       /\ IF o = "ok"
          THEN /\ mbox_processed' = mbox_processed + 1
               /\ UNCHANGED b_pc
          ELSE /\ b_pc' = "except"
               /\ UNCHANGED mbox_processed
  /\ UNCHANGED << n_messages, error_count >>
  /\ UNCHANGED notMbox

\* 'except Exception as e: error_count += 1' and the prints.
MboxExcept ==
  /\ b_pc = "except"
  /\ error_count' = error_count + 1
  /\ b_pc' = AfterException
  /\ UNCHANGED << n_messages, msg_key, mbox_processed, msg_outcome >>
  /\ UNCHANGED notMbox

\* The loop is over: the summary.
MboxSummary ==
  /\ b_pc = "loop"
  /\ msg_key = n_messages
  /\ b_pc' = "done"
  /\ UNCHANGED << n_messages, msg_key, mbox_processed, error_count, msg_outcome >>
  /\ UNCHANGED notMbox

NextMbox ==
  \/ MboxMessage
  \/ MboxExcept
  \/ MboxSummary

SpecMbox == InitMbox /\ [][NextMbox]_vars

\* C22: process_mbox handles no message twice; between two messages processed
\* counts the messages that went through and error_count those that raised an
\* exception; and on completion every message of the mbox has been handled
\* once, so that processed + error_count is the number of messages.
C22_EveryMessageOnce ==
  /\ \A m \in 1..MaxMessages : Len(msg_outcome[m]) <= 1
  /\ b_pc \in { "loop", "done" } =>
       /\ mbox_processed = Cardinality(Ended(TRUE))
       /\ error_count = Cardinality(Ended(FALSE))
  /\ b_pc = "done" =>
       /\ \A m \in 1..MaxMessages : Len(msg_outcome[m]) = (IF m <= n_messages THEN 1 ELSE 0)
       /\ mbox_processed + error_count = n_messages

\* The run is complete; the first message raised an exception while its PDF
\* was created, and the messages after it were processed.
C22_Witness ==
  /\ b_pc = "done"
  /\ n_messages >= 3
  /\ msg_outcome[1] = << "email_pdf" >>
  /\ msg_outcome[2] = << "ok" >>
  /\ error_count = 1
  /\ mbox_processed = n_messages - 1

(***************************************************************************)
(* cia_reading_room_scraper/cia_rdp96_app.py: scrape_document_pages        *)
(***************************************************************************)

\* The URL of document d, as the parts between its slashes.
Url(d) == << "https:", "", "www.cia.gov", "readingroom", "document", d >>

\* 'url.split('/')[-1]'
doc_id(url) == url[Len(url)]

\* The lists of URLs without a repetition that extract_document_urls can
\* return ('list(set(urls))'), in every order.
UrlLists ==
  { l \in UNION { [1..n -> { Url(d) : d \in 1..NumUrls }] : n \in 0..NumUrls } :
      \A i, j \in 1..Len(l) : l[i] = l[j] => i = j }

\* The files output/layer_1 can hold, a name being << stem, extension >>: the
\* saved pages and files of another kind.
Layer1Files == { << d, e >> : d \in 1..NumUrls, e \in { "html", "txt" } }

\* Lines 72-75: the stems of the files that end in .html.
Downloaded(files) == { f[1] : f \in { g \in files : g[Len(g)] = "html" } }

\* Lines 80-84: the URLs whose doc_id is not in downloaded, in their order.
UrlsToScrape(l, done) == SelectSeq(l, LAMBDA url : doc_id(url) \notin done)

\* How the try block of one URL can end: the page is saved; driver.get raises;
\* open raises; or driver.page_source or the write raises, after open has
\* created the file.
FetchOutcomes == { "saved", "get_error", "open_error", "write_error" }

\* Where the for loop is after the except clause, if an exception on one URL
\* ended the loop.
AfterScrapeErrorStop == "quit"

\* Where the for loop is after the except clause: at the next URL.
AfterScrapeError == "loop"

\* scrape_document_pages(document_urls), with what earlier calls left in
\* output/layer_1.
InitCia ==
  /\ cia_pc = "start"
  /\ document_urls \in UrlLists
  /\ layer_1 \in SUBSET Layer1Files
  /\ layer_1_at_start = layer_1
  /\ downloaded = {}
  /\ urls_to_scrape = << >>
  /\ url_i = 0
  /\ fetched = [d \in 1..NumUrls |-> << >>]
  /\ cia_driver = "none"
  /\ FBINotStarted
  /\ MailNotStarted("idle")
  /\ CompressNotStarted
  /\ RepairNotStarted
  /\ NoCall
  /\ WaitNotStarted
  /\ MboxNotStarted
  /\ StateNotStarted

\* Lines 69-86: the driver, the documents already downloaded, the URLs left.
CiaStart ==
  /\ cia_pc = "start"
  /\ cia_driver' = "open"
  /\ downloaded' = Downloaded(layer_1)
  /\ urls_to_scrape' = UrlsToScrape(document_urls, Downloaded(layer_1))
  /\ url_i' = 1
  /\ cia_pc' = "loop"
  /\ UNCHANGED << document_urls, layer_1, layer_1_at_start, fetched >>
  /\ UNCHANGED notCia

\* One iteration of 'for i, url in enumerate(urls_to_scrape)': the try block
\* and, after an exception, the except clause.
CiaScrape ==
  /\ cia_pc = "loop"
  /\ url_i <= Len(urls_to_scrape)
  /\ LET url == urls_to_scrape[url_i]
     IN  \E o \in FetchOutcomes :
           /\ fetched' = [fetched EXCEPT ![doc_id(url)] = Append(@, o)]
           /\ layer_1' = IF o \in { "saved", "write_error" }
                         THEN layer_1 \cup { << doc_id(url), "html" >> }
                         ELSE layer_1
           /\ cia_pc' = IF o = "saved" THEN "loop" ELSE AfterScrapeError
  /\ url_i' = url_i + 1
  /\ UNCHANGED << document_urls, layer_1_at_start, downloaded, urls_to_scrape, cia_driver >>
  /\ UNCHANGED notCia

\* The loop is over.
CiaLoopEnd ==
  /\ cia_pc = "loop"
  /\ url_i > Len(urls_to_scrape)
  /\ cia_pc' = "quit"
  /\ UNCHANGED << document_urls, layer_1, layer_1_at_start, downloaded, urls_to_scrape,
                  url_i, fetched, cia_driver >>
  /\ UNCHANGED notCia

\* 'driver.quit()'
CiaQuit ==
  /\ cia_pc = "quit"
  /\ cia_driver' = "quit"
  /\ cia_pc' = "done"
  /\ UNCHANGED << document_urls, layer_1, layer_1_at_start, downloaded, urls_to_scrape,
                  url_i, fetched >>
  /\ UNCHANGED notCia

NextCia ==
  \/ CiaStart
  \/ CiaScrape
  \/ CiaLoopEnd
  \/ CiaQuit

SpecCia == InitCia /\ [][NextCia]_vars

\* C23: in one call of scrape_document_pages the URL of a document that had an
\* HTML file in output/layer_1 when the call began is never fetched, no URL is
\* fetched twice, and when the call is over every other URL of the list has
\* been fetched, whatever exceptions the URLs before it raised.
C23_Resumable ==
  /\ \A d \in 1..NumUrls :
       /\ << d, "html" >> \in layer_1_at_start => fetched[d] = << >>
       /\ Len(fetched[d]) <= 1
  /\ cia_pc \in { "quit", "done" } =>
       \A i \in 1..Len(document_urls) :
         << doc_id(document_urls[i]), "html" >> \notin layer_1_at_start =>
           Len(fetched[doc_id(document_urls[i])]) = 1

\* The call is over: one document of the list had its page from an earlier
\* call and was not fetched, the first URL left raised an exception in
\* driver.get, and the URL after it was fetched and saved.
C23_Witness ==
  /\ cia_pc = "done"
  /\ Len(urls_to_scrape) >= 2
  /\ Len(document_urls) > Len(urls_to_scrape)
  /\ fetched[doc_id(urls_to_scrape[1])] = << "get_error" >>
  /\ fetched[doc_id(urls_to_scrape[2])] = << "saved" >>
  /\ \E i \in 1..Len(document_urls) :
       /\ << doc_id(document_urls[i]), "html" >> \in layer_1_at_start
       /\ fetched[doc_id(document_urls[i])] = << >>

(***************************************************************************)
(* state_department/state_dep_allowances.py: layer_0                       *)
(***************************************************************************)

\* The calls of lines 27-29, which stand before the try statement: the failure
\* of one of them is an exception that leaves layer_0.
UnguardedFailures == { "get_error", "select_error", "submit_error" }

\* How the try statement of lines 32-43 can end: pd.read_html raises (it does
\* when the page has no table) or returns no table, df.to_csv raises before or
\* after it has created the file, or the CSV is saved.
GuardedOutcomes ==
  { "parse_error", "no_tables", "csv_error", "csv_error_partial", "saved" }

\* layer_0(), with the CSV files that earlier calls left in output/tables.
InitState ==
  /\ s_pc = "start"
  /\ date_values = 0
  /\ date_i = 0
  /\ csv_files \in SUBSET (1..NumDates)
  /\ csv_at_start = csv_files
  /\ date_fetches = [d \in 1..NumDates |-> << >>]
  /\ s_driver = "none"
  /\ s_escaped = "none"
  /\ FBINotStarted
  /\ MailNotStarted("idle")
  /\ CompressNotStarted
  /\ RepairNotStarted
  /\ NoCall
  /\ WaitNotStarted
  /\ MboxNotStarted
  /\ CiaNotStarted

\* Lines 10-17: the driver, the form and the dates it offers; the first
\* driver.get may raise, and nothing catches it.
StateStart ==
  /\ s_pc = "start"
  /\ s_driver' = "open"
  /\ \/ /\ s_pc' = "raised"
        /\ s_escaped' = "first_get"
        /\ UNCHANGED date_values
     \/ /\ s_pc' = "loop"
        /\ date_values' \in 0..NumDates
        /\ UNCHANGED s_escaped
  /\ UNCHANGED << date_i, csv_files, csv_at_start, date_fetches >>
  /\ UNCHANGED notState

\* One iteration of 'for date_val in date_values': the date is skipped if its
\* CSV exists; otherwise the form is loaded, the date selected and the form
\* submitted, outside the try statement, and the table parsed and saved
\* inside it.
StateDate ==
  /\ s_pc = "loop"
  /\ date_i < date_values
  /\ date_i' = date_i + 1
  /\ LET date_val == date_i + 1
     IN  IF date_val \in csv_files
         THEN UNCHANGED << s_pc, csv_files, date_fetches, s_escaped >>
         ELSE \E o \in UnguardedFailures \cup GuardedOutcomes :
                /\ date_fetches' = [date_fetches EXCEPT ![date_val] = Append(@, o)]
                /\ csv_files' = IF o \in { "csv_error_partial", "saved" } THEN csv_files \cup { date_val }
                                ELSE csv_files
                /\ IF o \in UnguardedFailures
                   THEN s_pc' = "raised" /\ s_escaped' = o
                   ELSE UNCHANGED << s_pc, s_escaped >>
  /\ UNCHANGED << date_values, csv_at_start, s_driver >>
  /\ UNCHANGED notState

\* After the loop: 'driver.quit()'.
StateQuit ==
  /\ s_pc = "loop"
  /\ date_i = date_values
  /\ s_driver' = "quit"
  /\ s_pc' = "done"
  /\ UNCHANGED << date_values, date_i, csv_files, csv_at_start, date_fetches, s_escaped >>
  /\ UNCHANGED notState

NextState ==
  \/ StateStart
  \/ StateDate
  \/ StateQuit

SpecState == InitState /\ [][NextState]_vars

\* C24: once the form has been loaded, a date whose CSV existed when layer_0
\* began is never fetched, and when layer_0 is over, whatever failed on a
\* date, every other date of the form has been fetched once and the driver has
\* been quit.
C24_FailureSkipsOneDate ==
  s_escaped # "first_get" =>
    /\ \A d \in 1..NumDates : d \in csv_at_start => date_fetches[d] = << >>
    /\ s_pc \in { "done", "raised" } =>
         /\ s_driver = "quit"
         /\ \A d \in 1..date_values :
              d \notin csv_at_start => Len(date_fetches[d]) = 1

====
